---- MODULE Spec2Model ----
(***************************************************************************)
(* Filesystem model of the plugin staging / backup / restore utilities of  *)
(* adapt-authoring-contentplugin (lib/utils/*.js).                         *)
(*                                                                         *)
(* Directory entry names and version tokens are sequences of one-character *)
(* strings, so that glob prefix matching, String.prototype.replace,        *)
(* semver.valid / semver.rcompare and String.prototype.localeCompare are   *)
(* computed character by character, as the code computes them.             *)
(***************************************************************************)
EXTENDS Integers, Sequences, FiniteSets, TLC

(***************************************************************************)
(* Bounds of the model.                                                    *)
(***************************************************************************)
\* largest number of <name>-v* entries of one plugin in an initial pluginDir
MaxBackups == 3
\* number of utility calls in one behaviour
MaxCalls == 1
\* entries of one installPlugins batch
MaxBatch == 3

(***************************************************************************)
(* Characters and strings.                                                 *)
(***************************************************************************)
DigitSeq == <<"0", "1", "2", "3", "4", "5", "6", "7", "8", "9">>
Digits == {DigitSeq[i] : i \in 1..Len(DigitSeq)}
LetterSeq == <<"a", "b", "c", "d", "e", "f", "g", "h", "i", "j", "k", "l", "m",
               "n", "o", "p", "q", "r", "s", "t", "u", "v", "w", "x", "y", "z">>
Letters == {LetterSeq[i] : i \in 1..Len(LetterSeq)}

DigitVal(c) == (CHOOSE i \in 1..Len(DigitSeq) : DigitSeq[i] = c) - 1
LetterIdx(c) == CHOOSE i \in 1..Len(LetterSeq) : LetterSeq[i] = c

\* UTF-16 code unit of a character (the order of the < operator on strings)
CodeUnit(c) ==
  IF c = "+" THEN 43
  ELSE IF c = "-" THEN 45
  ELSE IF c = "." THEN 46
  ELSE IF c \in Digits THEN 48 + DigitVal(c)
  ELSE 96 + LetterIdx(c)

\* primary collation weight of a character in the root locale: punctuation
\* (- before .), then symbols (+), then digits, then letters
LocaleRank(c) ==
  IF c = "-" THEN 1
  ELSE IF c = "." THEN 2
  ELSE IF c = "+" THEN 3
  ELSE IF c \in Digits THEN 10 + DigitVal(c)
  ELSE 20 + LetterIdx(c)

Sign(n) == IF n < 0 THEN -1 ELSE IF n > 0 THEN 1 ELSE 0

MinOf(S) == CHOOSE x \in S : \A y \in S : x <= y

Shorter(x, y) == IF Len(x) < Len(y) THEN Len(x) ELSE Len(y)

\* the positions at which two strings differ
Differ(x, y) == {i \in 1..Shorter(x, y) : x[i] # y[i]}

\* a.localeCompare(b): the first differing characters by collation weight, else
\* the shorter string first
localeCompareAt(a, b, diff) ==
  IF diff = {} THEN Sign(Len(a) - Len(b))
  ELSE Sign(LocaleRank(a[MinOf(diff)]) - LocaleRank(b[MinOf(diff)]))

localeCompare(a, b) == localeCompareAt(a, b, Differ(a, b))

\* a < b ? -1 : a > b ? 1 : 0 on strings
codeUnitCompareAt(a, b, diff) ==
  IF diff = {} THEN Sign(Len(a) - Len(b))
  ELSE Sign(CodeUnit(a[MinOf(diff)]) - CodeUnit(b[MinOf(diff)]))

codeUnitCompare(a, b) == codeUnitCompareAt(a, b, Differ(a, b))

IsPrefix(p, s) == Len(p) <= Len(s) /\ SubSeq(s, 1, Len(p)) = p

FirstOf(hits) == IF hits = {} THEN 0 ELSE MinOf(hits)

\* index of the first occurrence of pat in s, 0 when there is none
FindSub(s, pat) ==
  FirstOf({i \in 1..(Len(s) - Len(pat) + 1) : SubSeq(s, i, i + Len(pat) - 1) = pat})

CutAt(s, i, n) == IF i = 0 THEN s ELSE SubSeq(s, 1, i - 1) \o SubSeq(s, i + n, Len(s))

\* s.replace(pat, '') with a string pattern: the first occurrence is removed
Replace(s, pat) == CutAt(s, FindSub(s, pat), Len(pat))

IndexOf(s, c) == FindSub(s, <<c>>)

\* the part of s before position i (all of s when i = 0), and the part after it
Before(s, i) == IF i = 0 THEN s ELSE SubSeq(s, 1, i - 1)
After(s, i) == IF i = 0 THEN <<>> ELSE SubSeq(s, i + 1, Len(s))

RECURSIVE Split(_, _)
SplitAt(s, c, i) ==
  IF i = 0 THEN <<s>> ELSE <<SubSeq(s, 1, i - 1)>> \o Split(SubSeq(s, i + 1, Len(s)), c)
Split(s, c) == SplitAt(s, c, IndexOf(s, c))

RECURSIVE NumVal(_)
NumVal(s) ==
  IF s = <<>> THEN 0
  ELSE 10 * NumVal(SubSeq(s, 1, Len(s) - 1)) + DigitVal(s[Len(s)])

(***************************************************************************)
(* semver (strict mode): valid, compare, rcompare.                         *)
(***************************************************************************)
AllDigits(id) == id # <<>> /\ \A i \in 1..Len(id) : id[i] \in Digits

\* NUMERICIDENTIFIER: 0|[1-9]\d*
IsNumericId(id) == AllDigits(id) /\ (Len(id) > 1 => id[1] # "0")

\* [0-9A-Za-z-]+
IsIdChars(id) ==
  id # <<>> /\ \A i \in 1..Len(id) : id[i] \in Digits \cup Letters \cup {"-"}

\* NONNUMERICIDENTIFIER: \d*[a-zA-Z-][a-zA-Z0-9-]*
IsNonNumericId(id) == IsIdChars(id) /\ ~AllDigits(id)

\* the parts of a version string under the FULL pattern
\* ^v?MAJOR.MINOR.PATCH(-PRERELEASE)?(+BUILD)?$ : an optional v, the text up
\* to the first +, cut at its first -, and the build text after the +
StripV(version) ==
  IF version # <<>> /\ version[1] = "v" THEN SubSeq(version, 2, Len(version)) ELSE version

CoreParts(core, dash) ==
  [main |-> Split(Before(core, dash), "."),
   hasPre |-> dash # 0,
   pre |-> IF dash = 0 THEN <<>> ELSE Split(After(core, dash), ".")]

BuildParts(s0, plus) ==
  [hasBuild |-> plus # 0,
   build |-> IF plus = 0 THEN <<>> ELSE Split(After(s0, plus), ".")]

PartsOf(core, build) ==
  [main |-> core.main, hasPre |-> core.hasPre, pre |-> core.pre,
   hasBuild |-> build.hasBuild, build |-> build.build]

CoreOf(core) == CoreParts(core, IndexOf(core, "-"))

PartsAt(s0, plus) == PartsOf(CoreOf(Before(s0, plus)), BuildParts(s0, plus))

PartsOfStripped(s0) == PartsAt(s0, IndexOf(s0, "+"))

SemverParts(version) == PartsOfStripped(StripV(version))

ValidParts(p) ==
  /\ Len(p.main) = 3
  /\ \A i \in 1..3 : IsNumericId(p.main[i])
  /\ p.hasPre =>
       \A i \in 1..Len(p.pre) : IsNumericId(p.pre[i]) \/ IsNonNumericId(p.pre[i])
  /\ p.hasBuild => \A i \in 1..Len(p.build) : IsIdChars(p.build[i])

\* semver.valid(version) is non-null
valid(version) == ValidParts(SemverParts(version))

compareIdentifiers(a, b) ==
  IF AllDigits(a) /\ AllDigits(b) THEN Sign(NumVal(a) - NumVal(b))
  ELSE IF AllDigits(a) THEN -1
  ELSE IF AllDigits(b) THEN 1
  ELSE codeUnitCompare(a, b)

\* the first position at which two identifier lists differ decides
FirstDiff(xs, ys, d) ==
  IF d = {} THEN Sign(Len(xs) - Len(ys))
  ELSE compareIdentifiers(xs[MinOf(d)], ys[MinOf(d)])

compareMain(p, q) ==
  FirstDiff(p.main, q.main, {i \in 1..3 : NumVal(p.main[i]) # NumVal(q.main[i])})

comparePre(p, q) ==
  IF p.hasPre /\ ~q.hasPre THEN -1
  ELSE IF ~p.hasPre /\ q.hasPre THEN 1
  ELSE IF ~p.hasPre /\ ~q.hasPre THEN 0
  ELSE FirstDiff(p.pre, q.pre,
                 {i \in 1..Shorter(p.pre, q.pre) : compareIdentifiers(p.pre[i], q.pre[i]) # 0})

MainThenPre(main, p, q) == IF main # 0 THEN main ELSE comparePre(p, q)

compareParts(p, q) == MainThenPre(compareMain(p, q), p, q)

\* semver.compare(a, b) of two valid versions
compare(a, b) == compareParts(SemverParts(a), SemverParts(b))

rcompare(a, b) == compare(b, a)

(***************************************************************************)
(* Array.prototype.sort as the engine runs it on an array of fewer than 64 *)
(* elements: the leading run is found (and reversed when strictly          *)
(* descending), then the rest is placed by binary insertion.  With a       *)
(* comparator that is not a consistent order the result depends on the     *)
(* order in which the elements were listed.                                *)
(***************************************************************************)
DashV == <<"-", "v">>

\* the comparator with semver.compare in the place of semver.rcompare
compareVersionsAscending(versionA, versionB, a, b) ==
  IF valid(versionA) /\ valid(versionB)
  THEN compare(versionA, versionB)
  ELSE localeCompare(b, a)

\* the comparator with the paths of a mixed pair compared the other way round
compareVersionsPathsAscending(versionA, versionB, a, b) ==
  IF valid(versionA) /\ valid(versionB)
  THEN rcompare(versionA, versionB)
  ELSE localeCompare(a, b)

compareVersions(versionA, versionB, a, b) ==
  IF valid(versionA) /\ valid(versionB)
  THEN rcompare(versionA, versionB)
  ELSE localeCompare(b, a)

\* the comparator that getMostRecentBackup hands to sort; a and b are entry
\* names (both paths share the directory part, which no comparison reaches)
backupComparator(pluginName, a, b) ==
  compareVersions(Replace(a, pluginName \o DashV), Replace(b, pluginName \o DashV), a, b)

\* A function is kept as its defining expression until it is compared with
\* something; the comparison makes it a table of values, computed once.
Tabulated(f) == IF f = f THEN f ELSE f

\* the comparator over the entries of a listing, as a table of its results
comparatorOn(entries, pluginName) ==
  Tabulated([p \in entries \X entries |-> backupComparator(pluginName, p[1], p[2])])

RECURSIVE RunEnd(_, _, _, _)
RunStep(arr, comparefn, isDescending, idx, order) ==
  IF (isDescending /\ order >= 0) \/ (~isDescending /\ order < 0)
  THEN idx - 1
  ELSE RunEnd(arr, comparefn, isDescending, idx + 1)
RunEnd(arr, comparefn, isDescending, idx) ==
  IF idx > Len(arr) THEN Len(arr)
  ELSE RunStep(arr, comparefn, isDescending, idx, comparefn[<<arr[idx], arr[idx - 1]>>])

Reverse(s) == [i \in 1..Len(s) |-> s[Len(s) + 1 - i]]

MakeRun(arr, isDescending, runLength) ==
  [run |-> runLength,
   arr |-> IF isDescending
           THEN Reverse(SubSeq(arr, 1, runLength)) \o SubSeq(arr, runLength + 1, Len(arr))
           ELSE arr]

RunFrom(arr, comparefn, isDescending) ==
  MakeRun(arr, isDescending, RunEnd(arr, comparefn, isDescending, 3))

CountAndMakeRun(arr, comparefn) ==
  RunFrom(arr, comparefn, comparefn[<<arr[2], arr[1]>>] < 0)

RECURSIVE BinarySearch(_, _, _, _, _)
SearchStep(arr, comparefn, pivot, left, right, mid) ==
  IF comparefn[<<pivot, arr[mid]>>] < 0
  THEN BinarySearch(arr, comparefn, pivot, left, mid)
  ELSE BinarySearch(arr, comparefn, pivot, mid + 1, right)
BinarySearch(arr, comparefn, pivot, left, right) ==
  IF left >= right THEN left
  ELSE SearchStep(arr, comparefn, pivot, left, right, left + ((right - left) \div 2))

\* the element at start moved down to pos
MoveTo(arr, start, pos) ==
  SubSeq(arr, 1, pos - 1) \o <<arr[start]>>
  \o SubSeq(arr, pos, start - 1) \o SubSeq(arr, start + 1, Len(arr))

RECURSIVE BinaryInsertionSort(_, _, _)
BinaryInsertionSort(arr, comparefn, start) ==
  IF start > Len(arr) THEN arr
  ELSE BinaryInsertionSort(
         MoveTo(arr, start, BinarySearch(arr, comparefn, arr[start], 1, start)),
         comparefn, start + 1)

SortRun(r, comparefn) == BinaryInsertionSort(r.arr, comparefn, r.run + 1)

\* backups.sort(comparefn)
sortBackups(backups, comparefn) ==
  IF Len(backups) < 2 THEN backups
  ELSE SortRun(CountAndMakeRun(backups, comparefn), comparefn)

(***************************************************************************)
(* Files and directories.  A node is a file (with its data) or a directory *)
(* (with its entries, a function from file names to nodes).  A JSON file's *)
(* data says whether it parses, and the name and version it then holds; a  *)
(* tag tells the copies of different origin apart.                         *)
(***************************************************************************)
NoData == [parses |-> FALSE, name |-> <<>>, hasVersion |-> FALSE, version |-> <<>>,
           tag |-> "none"]
NoEntries == [k \in {} |-> NoData]
File(d) == [kind |-> "file", data |-> d, entries |-> NoEntries]
Dir(e) == [kind |-> "dir", data |-> NoData, entries |-> e]

Json(n, v, t) == [parses |-> TRUE, name |-> n, hasVersion |-> TRUE, version |-> v, tag |-> t]
JsonNoVersion(n, t) ==
  [parses |-> TRUE, name |-> n, hasVersion |-> FALSE, version |-> <<>>, tag |-> t]
Text(t) == [parses |-> FALSE, name |-> <<>>, hasVersion |-> FALSE, version |-> <<>>, tag |-> t]

\* a function without the key k
Without(f, k) == [x \in (DOMAIN f) \ {k} |-> f[x]]
\* a function with k bound to v
With(f, k, v) == [x \in (DOMAIN f) \cup {k} |-> IF x = k THEN v ELSE f[x]]

\* readJson(path.join(dir, file)) resolves: the file exists and JSON.parse accepts it
ReadOk(dir, file) ==
  /\ dir.kind = "dir"
  /\ file \in DOMAIN dir.entries
  /\ dir.entries[file].kind = "file"
  /\ dir.entries[file].data.parses

\* the value readJson resolves with
readJson(dir, file) == dir.entries[file].data

\* `${version}` of a parsed document: a missing field prints as undefined
Undefined == <<"u", "n", "d", "e", "f", "i", "n", "e", "d">>
VersionText(json) == IF json.hasVersion THEN json.version ELSE Undefined

\* fs.rename(oldPath, newPath) between entries of one directory (rename(2))
rename(f, oldPath, newPath) ==
  IF oldPath \notin DOMAIN f THEN [ok |-> FALSE, err |-> "ENOENT", fs |-> f]
  ELSE IF oldPath = newPath THEN [ok |-> TRUE, err |-> "", fs |-> f]
  ELSE IF newPath \notin DOMAIN f
    THEN [ok |-> TRUE, err |-> "", fs |-> With(Without(f, oldPath), newPath, f[oldPath])]
  ELSE IF f[oldPath].kind = "dir" /\ f[newPath].kind = "file"
    THEN [ok |-> FALSE, err |-> "ENOTDIR", fs |-> f]
  ELSE IF f[oldPath].kind = "file" /\ f[newPath].kind = "dir"
    THEN [ok |-> FALSE, err |-> "EISDIR", fs |-> f]
  ELSE IF f[newPath].kind = "dir" /\ DOMAIN f[newPath].entries # {}
    THEN [ok |-> FALSE, err |-> "ENOTEMPTY", fs |-> f]
  ELSE [ok |-> TRUE, err |-> "", fs |-> With(Without(f, oldPath), newPath, f[oldPath])]

\* fs.cp(src, dest, { recursive: true }) onto an existing node: directories are
\* merged entry by entry, anything else is overwritten
RECURSIVE Merge(_, _)
Merge(dst, src) ==
  IF dst.kind = "dir" /\ src.kind = "dir"
  THEN Dir([k \in (DOMAIN dst.entries) \cup (DOMAIN src.entries) |->
              IF k \in DOMAIN src.entries /\ k \in DOMAIN dst.entries
              THEN Merge(dst.entries[k], src.entries[k])
              ELSE IF k \in DOMAIN src.entries THEN src.entries[k]
              ELSE dst.entries[k]])
  ELSE src

cp(f, node, dest) ==
  IF dest \in DOMAIN f THEN With(f, dest, Merge(f[dest], node)) ELSE With(f, dest, node)

(***************************************************************************)
(* Results and log lines.                                                  *)
(***************************************************************************)
NullPath == <<>>
NoPkg == [name |-> <<>>, hasVersion |-> FALSE, version |-> <<>>, tag |-> "none",
          hasSourcePath |-> FALSE, sourcePath |-> <<>>, isLocalInstall |-> FALSE]
Pkg(json) == [name |-> json.name, hasVersion |-> json.hasVersion, version |-> json.version,
              tag |-> json.tag,
              hasSourcePath |-> FALSE, sourcePath |-> <<>>, isLocalInstall |-> FALSE]

RetNone == [kind |-> "none", path |-> NullPath, pkg |-> NoPkg, err |-> "", arg |-> <<>>]
RetNull == [RetNone EXCEPT !.kind = "null"]
RetVoid == [RetNone EXCEPT !.kind = "void"]
RetPath(p) == [RetNone EXCEPT !.kind = "path", !.path = p]
RetPkg(pkg) == [RetNone EXCEPT !.kind = "pkg", !.pkg = pkg]
RetThrow(e, a) == [RetNone EXCEPT !.kind = "throw", !.err = e, !.arg = a]

LogLine(level, msg, name, detail) ==
  [level |-> level, msg |-> msg, name |-> name, detail |-> detail]

(***************************************************************************)
(* glob(`${pluginName}-v*`, { cwd: pluginDir }): the entries of pluginDir  *)
(* whose name starts with the plugin name followed by -v.  The order of    *)
(* the listing is not fixed.                                               *)
(***************************************************************************)
Matches(f, pluginName) == {e \in DOMAIN f : IsPrefix(pluginName \o DashV, e)}

RECURSIVE Listings(_)
Listings(S) ==
  IF S = {} THEN {<<>>}
  ELSE UNION {{<<e>> \o l : l \in Listings(S \ {e})} : e \in S}

(***************************************************************************)
(* getMostRecentBackup(pluginDir, pluginName); backups is glob's listing.  *)
(***************************************************************************)
\* the sorted listing read at its last element
lastSorted(backups, comparefn) ==
  IF Len(backups) = 0 THEN NullPath
  ELSE sortBackups(backups, comparefn)[Len(backups)]

\* lines 20-36, comparefn being the comparator of lines 25-34
firstSorted(backups, comparefn) ==
  IF Len(backups) = 0 THEN NullPath
  ELSE sortBackups(backups, comparefn)[1]

getMostRecentBackup(backups, pluginName) ==
  firstSorted(backups, comparatorOn({backups[i] : i \in 1..Len(backups)}, pluginName))

\* The listings of S up to the place of entry e: cleanupOldPluginBackups drops
\* e from its listing before it reads it, so e is listed first
ListingsBut(S, e) ==
  IF e \in S THEN {<<e>> \o l : l \in Listings(S \ {e})} ELSE Listings(S)

\* what getMostRecentBackup resolves with over the listings ls
ResultsOver(ls, comparefn) == {firstSorted(backups, comparefn) : backups \in ls}

\* what a call of getMostRecentBackup can resolve with on pluginDir f
MostRecentResults(f, pluginName) ==
  ResultsOver(Listings(Matches(f, pluginName)),
              comparatorOn(Matches(f, pluginName), pluginName))

(***************************************************************************)
(* backupPluginVersion(pluginPath, pluginName, log); now is Date.now().    *)
(***************************************************************************)
Unknown == <<"u", "n", "k", "n", "o", "w", "n", "-">>

\* the version token without the fallback to bower.json
existingVersionWithoutBower(dir, now) ==
  IF ReadOk(dir, "package.json") THEN VersionText(readJson(dir, "package.json"))
  ELSE Unknown \o now

\* lines 23-35: the version token
existingVersion(dir, now) ==
  IF ReadOk(dir, "package.json") THEN VersionText(readJson(dir, "package.json"))
  ELSE IF ReadOk(dir, "bower.json") THEN VersionText(readJson(dir, "bower.json"))
  ELSE Unknown \o now

\* line 32: the warning of the inner catch
versionWarning(dir, pluginName) ==
  IF ~ReadOk(dir, "package.json") /\ ~ReadOk(dir, "bower.json")
  THEN <<LogLine("warn", "Could not read version for backup of", pluginName, <<>>)>>
  ELSE <<>>

\* lines 37-39, moved being the outcome of the rename
backupMoved(f, pluginName, version, warned, backupDir, moved) ==
  IF moved.ok
  THEN [fs |-> moved.fs, ret |-> RetPath(backupDir),
        log |-> warned \o <<LogLine("info", "Backed up", pluginName, version)>>]
  ELSE [fs |-> f, ret |-> RetThrow(moved.err, backupDir), log |-> warned]

\* the relocation done as removal of the canonical directory followed by the
\* creation of the backup, the second step failing where the rename fails
backupToInTwoSteps(f, pluginPath, pluginName, version, warned, backupDir) ==
  IF rename(f, pluginPath, backupDir).ok
  THEN backupMoved(f, pluginName, version, warned, backupDir, rename(f, pluginPath, backupDir))
  ELSE [fs |-> Without(f, pluginPath),
        ret |-> RetThrow(rename(f, pluginPath, backupDir).err, backupDir),
        log |-> warned]

\* the backup made as a copy, the canonical directory staying where it is
backupToByCopy(f, pluginPath, pluginName, version, warned, backupDir) ==
  IF rename(f, pluginPath, backupDir).ok
  THEN [fs |-> With(f, backupDir, f[pluginPath]), ret |-> RetPath(backupDir),
        log |-> warned \o <<LogLine("info", "Backed up", pluginName, version)>>]
  ELSE [fs |-> f, ret |-> RetThrow(rename(f, pluginPath, backupDir).err, backupDir),
        log |-> warned]

\* lines 36-37
backupTo(f, pluginPath, pluginName, version, warned, backupDir) ==
  backupMoved(f, pluginName, version, warned, backupDir, rename(f, pluginPath, backupDir))

backupAs(f, pluginPath, pluginName, version, warned) ==
  backupTo(f, pluginPath, pluginName, version, warned, pluginPath \o DashV \o version)

\* the backup going on without the existence check of lines 18-22: both reads
\* fail, the warning is logged and the rename finds nothing to move
backupWithoutAccessCheck(f, pluginPath, pluginName, now) ==
  IF pluginPath \notin DOMAIN f
  THEN [fs |-> f,
        ret |-> RetThrow("ENOENT", pluginPath \o DashV \o Unknown \o now),
        log |-> <<LogLine("warn", "Could not read version for backup of", pluginName, <<>>)>>]
  ELSE backupAs(f, pluginPath, pluginName, existingVersion(f[pluginPath], now),
                versionWarning(f[pluginPath], pluginName))

backupPluginVersion(f, pluginPath, pluginName, now) ==
  IF pluginPath \notin DOMAIN f
  THEN [fs |-> f, ret |-> RetNull, log |-> <<>>]
  ELSE backupAs(f, pluginPath, pluginName, existingVersion(f[pluginPath], now),
                versionWarning(f[pluginPath], pluginName))

(***************************************************************************)
(* cleanupOldPluginBackups(pluginDir, pluginName, log); backups is its own *)
(* glob listing, mostRecent what its call of getMostRecentBackup resolves  *)
(* with.                                                                   *)
(***************************************************************************)
RECURSIVE RemoveAll(_, _)
RemoveAll(f, paths) ==
  IF paths = <<>> THEN f ELSE RemoveAll(Without(f, Head(paths)), Tail(paths))

\* lines 24-27
removeBackups(f, backupsToRemove, mostRecent) ==
  [fs |-> RemoveAll(f, backupsToRemove),
   ret |-> RetVoid,
   log |-> [i \in 1..Len(backupsToRemove) |->
              LogLine("info", "Removed old backup", backupsToRemove[i], <<>>)],
   mostRecent |-> mostRecent]

\* the retention step returning early on two backups as well
cleanupOverTwoBackups(f, backups, mostRecent, pluginName) ==
  IF Len(backups) <= 2
  THEN [fs |-> f, ret |-> RetVoid, log |-> <<>>, mostRecent |-> NullPath]
  ELSE removeBackups(f, SelectSeq(backups, LAMBDA backup : backup # mostRecent), mostRecent)

cleanupOldPluginBackups(f, backups, mostRecent, pluginName) ==
  IF Len(backups) <= 1
  THEN [fs |-> f, ret |-> RetVoid, log |-> <<>>, mostRecent |-> NullPath]
  ELSE removeBackups(f, SelectSeq(backups, LAMBDA backup : backup # mostRecent), mostRecent)

(***************************************************************************)
(* restorePluginFromBackup(pluginDir, pluginName, log); mostRecentBackup   *)
(* is what its call of getMostRecentBackup resolves with, rmOk tells       *)
(* whether the recursive removal of the current directory goes through.    *)
(***************************************************************************)
RestoredLine(pluginName) == <<LogLine("info", "Restored from backup", pluginName, <<>>)>>

\* the metadata read trying bower.json before package.json
restoreReadBowerFirst(g, pluginName, mostRecentBackup, dir) ==
  IF ReadOk(dir, "bower.json")
  THEN [fs |-> g, ret |-> RetPkg(Pkg(readJson(dir, "bower.json"))),
        log |-> RestoredLine(pluginName), mostRecent |-> mostRecentBackup]
  ELSE IF ReadOk(dir, "package.json")
  THEN [fs |-> g, ret |-> RetPkg(Pkg(readJson(dir, "package.json"))),
        log |-> RestoredLine(pluginName), mostRecent |-> mostRecentBackup]
  ELSE [fs |-> g,
        ret |-> RetThrow("Could not read package.json or bower.json from backup of",
                         pluginName),
        log |-> RestoredLine(pluginName), mostRecent |-> mostRecentBackup]

\* lines 35-44, on the directory now at pluginPath
restoreRead(g, pluginName, mostRecentBackup, dir) ==
  IF ReadOk(dir, "package.json")
  THEN [fs |-> g, ret |-> RetPkg(Pkg(readJson(dir, "package.json"))),
        log |-> RestoredLine(pluginName), mostRecent |-> mostRecentBackup]
  ELSE IF ReadOk(dir, "bower.json")
  THEN [fs |-> g, ret |-> RetPkg(Pkg(readJson(dir, "bower.json"))),
        log |-> RestoredLine(pluginName), mostRecent |-> mostRecentBackup]
  ELSE [fs |-> g,
        ret |-> RetThrow("Could not read package.json or bower.json from backup of",
                         pluginName),
        log |-> RestoredLine(pluginName), mostRecent |-> mostRecentBackup]

\* the restore moving the backup back to its path when the restored directory
\* has no readable metadata
restoreMovedRollingBack(removed, pluginName, mostRecentBackup, moved) ==
  IF ~moved.ok
  THEN [fs |-> removed, ret |-> RetThrow(moved.err, pluginName), log |-> <<>>,
        mostRecent |-> mostRecentBackup]
  ELSE IF ReadOk(moved.fs[pluginName], "package.json")
          \/ ReadOk(moved.fs[pluginName], "bower.json")
  THEN restoreRead(moved.fs, pluginName, mostRecentBackup, moved.fs[pluginName])
  ELSE restoreRead(removed, pluginName, mostRecentBackup, moved.fs[pluginName])

\* line 34, moved being the outcome of the rename
restoreMoved(removed, pluginName, mostRecentBackup, moved) ==
  IF ~moved.ok
  THEN [fs |-> removed, ret |-> RetThrow(moved.err, pluginName), log |-> <<>>,
        mostRecent |-> mostRecentBackup]
  ELSE restoreRead(moved.fs, pluginName, mostRecentBackup, moved.fs[pluginName])

restoreOver(removed, pluginName, mostRecentBackup) ==
  restoreMoved(removed, pluginName, mostRecentBackup,
               rename(removed, mostRecentBackup, pluginName))

restorePluginFromBackup(f, mostRecentBackup, pluginName, rmOk) ==
  IF mostRecentBackup = NullPath
  THEN [fs |-> f, ret |-> RetNull, log |-> <<>>, mostRecent |-> NullPath]
  ELSE restoreOver(IF pluginName \in DOMAIN f /\ rmOk THEN Without(f, pluginName) ELSE f,
                   pluginName, mostRecentBackup)

(***************************************************************************)
(* The filesystem outside pluginDir, where sources are unpacked: one tree, *)
(* a path is the sequence of its segments from the root.                   *)
(***************************************************************************)
Missing == [kind |-> "none", data |-> NoData, entries |-> NoEntries]

RECURSIVE Lookup(_, _)
Lookup(node, path) ==
  IF path = <<>> THEN node
  ELSE IF node.kind = "dir" /\ Head(path) \in DOMAIN node.entries
  THEN Lookup(node.entries[Head(path)], Tail(path))
  ELSE Missing

\* fs.rm(path, { recursive: true }) in the tree
RECURSIVE RemoveAt(_, _)
RemoveAt(node, path) ==
  IF Len(path) = 1 THEN Dir(Without(node.entries, Head(path)))
  ELSE Dir(With(node.entries, Head(path), RemoveAt(node.entries[Head(path)], Tail(path))))

\* path.basename(p)
basename(path) == <<path[Len(path)]>>

(***************************************************************************)
(* processPluginFiles(pluginData, pluginDir, log)                          *)
(***************************************************************************)
Unresolved(status, sourcePath) ==
  [status |-> status, sourcePath |-> sourcePath, src |-> Missing, json |-> NoData]

\* lines 27-29: a single entry is descended into
descend(sourcePath, contents) ==
  IF Cardinality(contents) = 1
  THEN sourcePath \o <<CHOOSE c \in contents : TRUE>>
  ELSE sourcePath

\* lines 31-41: package.json, else bower.json, of the resolved source
readSource(sourcePath, src) ==
  IF ReadOk(src, "package.json")
  THEN [status |-> "ok", sourcePath |-> sourcePath, src |-> src,
        json |-> readJson(src, "package.json")]
  ELSE IF ReadOk(src, "bower.json")
  THEN [status |-> "ok", sourcePath |-> sourcePath, src |-> src,
        json |-> readJson(src, "bower.json")]
  ELSE [status |-> "invalid", sourcePath |-> sourcePath, src |-> src, json |-> NoData]

\* the resolution descending a second time where the directory reached again
\* holds a single entry
resolveAtDescendingAgain(sf, sourcePath) ==
  IF Lookup(sf, sourcePath).kind = "dir"
  THEN readSource(descend(sourcePath, DOMAIN Lookup(sf, sourcePath).entries),
                  Lookup(sf, descend(sourcePath, DOMAIN Lookup(sf, sourcePath).entries)))
  ELSE readSource(sourcePath, Lookup(sf, sourcePath))

resolveAt(sf, sourcePath) == readSource(sourcePath, Lookup(sf, sourcePath))

\* the resolution without the early return of lines 22-25
resolveTopAlwaysLocal(sf, pluginData, top) ==
  IF top.kind # "dir"
  THEN Unresolved(IF top.kind = "none" THEN "ENOENT" ELSE "ENOTDIR", pluginData.sourcePath)
  ELSE resolveAt(sf, descend(pluginData.sourcePath, DOMAIN top.entries))

\* lines 22-29, top being the node at pluginData.sourcePath
resolveTop(sf, pluginData, top) ==
  IF pluginData.sourcePath = basename(pluginData.sourcePath)
  THEN Unresolved("bare", pluginData.sourcePath)
  ELSE IF top.kind # "dir"
  THEN Unresolved(IF top.kind = "none" THEN "ENOENT" ELSE "ENOTDIR", pluginData.sourcePath)
  ELSE resolveAt(sf, descend(pluginData.sourcePath, DOMAIN top.entries))

resolveSource(sf, pluginData) == resolveTop(sf, pluginData, Lookup(sf, pluginData.sourcePath))

\* line 44 on the resolved source rs
backupResolved(f, rs, now) ==
  IF rs.status = "ok"
  THEN backupPluginVersion(f, rs.json.name, rs.json.name, now)
  ELSE [fs |-> f, ret |-> RetNone, log |-> <<>>]

backupExisting(f, sf, pluginData, now) ==
  backupResolved(f, resolveSource(sf, pluginData), now)

\* lines 37-38: the descriptor
described(json) ==
  [Pkg(json) EXCEPT !.hasSourcePath = TRUE, !.sourcePath = json.name,
                    !.isLocalInstall = TRUE]

\* the move with the removal of the source started before the copy: the copy
\* finds nothing to read
moveIntoPlaceRemovingFirst(sf, rs, b, c) ==
  [fs |-> c.fs, srcfs |-> RemoveAt(sf, rs.sourcePath),
   log |-> b.log \o c.log, ret |-> RetThrow("ENOENT", rs.sourcePath)]

\* lines 50-52, b and c being the outcomes of the backup and of the cleanup
moveIntoPlace(sf, rs, b, c) ==
  [fs |-> cp(c.fs, rs.src, rs.json.name), srcfs |-> RemoveAt(sf, rs.sourcePath),
   log |-> b.log \o c.log, ret |-> RetPkg(described(rs.json))]

\* lines 44-47
afterBackup(f, sf, rs, b, backups, mostRecent) ==
  IF b.ret.kind = "throw"
  THEN [fs |-> b.fs, srcfs |-> sf, log |-> b.log, ret |-> b.ret]
  ELSE moveIntoPlace(sf, rs, b,
                     cleanupOldPluginBackups(b.fs, backups, mostRecent, rs.json.name))

\* the metadata of the source checked only after the installed plugin named by
\* the caller has been backed up
processResolvedBackingUpFirst(f, sf, pluginData, rs, now, backups, mostRecent) ==
  IF rs.status = "bare"
  THEN [fs |-> f, srcfs |-> sf, log |-> <<>>,
        ret |-> RetPkg([NoPkg EXCEPT !.name = pluginData.name, !.hasVersion = TRUE,
                                     !.version = pluginData.sourcePath])]
  ELSE IF rs.status \in {"ENOENT", "ENOTDIR"}
  THEN [fs |-> f, srcfs |-> sf, log |-> <<>>, ret |-> RetThrow(rs.status, rs.sourcePath)]
  ELSE IF rs.status = "invalid"
  THEN [fs |-> backupPluginVersion(f, pluginData.name, pluginData.name, <<"1">>).fs,
        srcfs |-> sf, log |-> <<>>,
        ret |-> RetThrow("Invalid plugin zip", rs.sourcePath)]
  ELSE afterBackup(f, sf, rs, backupResolved(f, rs, now), backups, mostRecent)

processResolved(f, sf, pluginData, rs, now, backups, mostRecent) ==
  IF rs.status = "bare"
  THEN [fs |-> f, srcfs |-> sf, log |-> <<>>,
        ret |-> RetPkg([NoPkg EXCEPT !.name = pluginData.name, !.hasVersion = TRUE,
                                     !.version = pluginData.sourcePath])]
  ELSE IF rs.status \in {"ENOENT", "ENOTDIR"}
  THEN [fs |-> f, srcfs |-> sf, log |-> <<>>, ret |-> RetThrow(rs.status, rs.sourcePath)]
  ELSE IF rs.status = "invalid"
  THEN [fs |-> f, srcfs |-> sf, log |-> <<>>,
        ret |-> RetThrow("Invalid plugin zip", rs.sourcePath)]
  ELSE afterBackup(f, sf, rs, backupResolved(f, rs, now), backups, mostRecent)

processPluginFiles(f, sf, pluginData, now, backups, mostRecent) ==
  processResolved(f, sf, pluginData, resolveSource(sf, pluginData), now, backups, mostRecent)

\* the entries the glob of the cleanup step finds, and what its call of
\* getMostRecentBackup can resolve with
FoundAfterBackup(rs, b) ==
  IF rs.status = "ok" /\ b.ret.kind # "throw" THEN Matches(b.fs, rs.json.name) ELSE {}
ResultsAfterBackup(rs, b) ==
  IF rs.status = "ok" /\ b.ret.kind # "throw"
  THEN MostRecentResults(b.fs, rs.json.name) ELSE {NullPath}

(***************************************************************************)
(* installPlugins(plugins, options).  An entry of plugins is a plugin name *)
(* and whether its installPlugin will resolve; the data an install         *)
(* resolves with is told by the entry's position.  status is where each    *)
(* entry's callback stands, settled the order in which the installs have   *)
(* settled so far.                                                         *)
(***************************************************************************)
NewBatch(plugins, strict) ==
  [plugins |-> plugins, strict |-> strict, phase |-> "called",
   status |-> [i \in 1..Len(plugins) |-> "new"],
   settled |-> <<>>, installed |-> <<>>, errors |-> <<>>, outcome |-> "pending"]

NoBatch == [NewBatch(<<>>, FALSE) EXCEPT !.phase = "none"]

\* line 263: plugins.map calls the callback of every entry, each running up to
\* its first await inside installPlugin
startAll(b) ==
  [b EXCEPT !.phase = "awaiting", !.status = [i \in 1..Len(b.plugins) |-> "running"]]

\* an install that fails rejecting the whole call at once, as Promise.all does
\* with callbacks that let the error through
settleFailingFast(b, i) ==
  IF b.plugins[i].ok
  THEN [b EXCEPT !.status[i] = "resolved", !.settled = Append(@, i),
                 !.installed = Append(@, i)]
  ELSE [b EXCEPT !.status[i] = "rejected", !.settled = Append(@, i),
                 !.errors = Append(@, i), !.phase = "done", !.outcome = "rejected"]

\* the results kept in the order of the batch
settleInBatchOrder(b, i) ==
  IF b.plugins[i].ok
  THEN [b EXCEPT !.status[i] = "resolved", !.settled = Append(@, i),
                 !.installed = SelectSeq(@, LAMBDA j : j < i) \o <<i>>
                               \o SelectSeq(@, LAMBDA j : j > i)]
  ELSE [b EXCEPT !.status[i] = "rejected", !.settled = Append(@, i),
                 !.errors = Append(@, i)]

\* lines 264-271: the install of entry i settles
settle(b, i) ==
  IF b.plugins[i].ok
  THEN [b EXCEPT !.status[i] = "resolved", !.settled = Append(@, i),
                 !.installed = Append(@, i)]
  ELSE [b EXCEPT !.status[i] = "rejected", !.settled = Append(@, i),
                 !.errors = Append(@, i)]

\* lines 267 and 269: the line logged when the install of entry i settles
settleLine(b, i) ==
  IF b.plugins[i].ok
  THEN LogLine("info", "PLUGIN_INSTALL", b.plugins[i].name, <<>>)
  ELSE LogLine("warn", "PLUGIN_INSTALL_FAIL", b.plugins[i].name, <<>>)

\* the end of the call without regard to options.strict
finishStrictly(b) ==
  [b EXCEPT !.phase = "done",
            !.outcome = IF Len(b.errors) > 0 THEN "rejected" ELSE "returned"]

\* lines 273-277, once Promise.all has resolved
finish(b) ==
  [b EXCEPT !.phase = "done",
            !.outcome = IF Len(b.errors) > 0 /\ b.strict THEN "rejected" ELSE "returned"]

(***************************************************************************)
(* The utilities step by step.  A call under way is a record: the function *)
(* (op) and its arguments, the place it has reached (pc), its local        *)
(* variables, what it has logged and, once it has ended, what it returned  *)
(* or threw.  Every await of a filesystem call is one step, so the steps   *)
(* of two calls can interleave.  runs counts how often the call was        *)
(* started, after holds the calls that had ended when it started, cut the  *)
(* place where a crash has cut off its first run.                          *)
(***************************************************************************)
NoProc ==
  [op |-> "none", name |-> <<>>, sourcePath |-> <<>>, pc |-> "done",
   rs |-> Unresolved("bare", <<>>), backups |-> <<>>, mostRecent |-> NullPath,
   toRemove |-> <<>>, ret |-> RetNone, log |-> <<>>, runs |-> 0, after |-> {},
   cut |-> "no"]

NewProc(op, name, sourcePath) ==
  [NoProc EXCEPT !.op = op, !.name = name, !.sourcePath = sourcePath, !.pc = "start"]

\* the call ends with result r
Ended(p, r) == [p EXCEPT !.pc = "done", !.ret = r]

\* the plugin whose directories the call works on
PluginOf(p) == IF p.op = "processPluginFiles" THEN p.rs.json.name ELSE p.name

\* processPluginFiles lines 22-41, rs being the source as resolved
processStart(p, f, sf, rs) ==
  IF rs.status = "ok"
  THEN [p EXCEPT !.rs = rs, !.pc = "backup"]
  ELSE Ended(p, processResolved(f, sf, [name |-> p.name, sourcePath |-> p.sourcePath],
                                rs, <<>>, <<>>, NullPath).ret)

\* processPluginFiles line 44, b being the outcome of backupPluginVersion
processBackup(p, b) ==
  IF b.ret.kind = "throw"
  THEN Ended([p EXCEPT !.log = @ \o b.log], b.ret)
  ELSE [p EXCEPT !.log = @ \o b.log, !.pc = "glob"]

\* cleanupOldPluginBackups has returned: line 18 or the end of the loop
cleaned(p) ==
  IF p.op = "processPluginFiles" THEN [p EXCEPT !.pc = "copy"] ELSE Ended(p, RetVoid)

\* cleanupOldPluginBackups lines 15-19, backups being glob's listing
globbed(p, backups) ==
  IF Len(backups) <= 1 THEN cleaned(p) ELSE [p EXCEPT !.backups = backups, !.pc = "select"]

\* cleanupOldPluginBackups lines 21-23
selected(p, mostRecent) ==
  [p EXCEPT !.mostRecent = mostRecent,
            !.toRemove = SelectSeq(p.backups, LAMBDA backup : backup # mostRecent),
            !.pc = "remove"]

\* cleanupOldPluginBackups lines 25-26 for the next backup to remove; fs.rm
\* without force fails on a path that is not there
removedNext(p, f) ==
  IF Head(p.toRemove) \notin DOMAIN f
  THEN [proc |-> Ended(p, RetThrow("ENOENT", Head(p.toRemove))), fs |-> f]
  ELSE [proc |-> IF Len(p.toRemove) = 1
                 THEN cleaned([p EXCEPT !.toRemove = <<>>,
                                 !.log = Append(@, LogLine("info", "Removed old backup",
                                                           Head(p.toRemove), <<>>))])
                 ELSE [p EXCEPT !.toRemove = Tail(@),
                         !.log = Append(@, LogLine("info", "Removed old backup",
                                                   Head(p.toRemove), <<>>))],
        fs |-> Without(f, Head(p.toRemove))]

\* processPluginFiles line 50, node being what is at the resolved source path
copied(p, f, node) ==
  IF node.kind = "none"
  THEN [proc |-> Ended(p, RetThrow("ENOENT", p.rs.sourcePath)), fs |-> f]
  ELSE [proc |-> [p EXCEPT !.pc = "delete"], fs |-> cp(f, node, p.rs.json.name)]

\* processPluginFiles lines 51-52
deleted(p, sf, node) ==
  IF node.kind = "none"
  THEN [proc |-> Ended(p, RetThrow("ENOENT", p.rs.sourcePath)), srcfs |-> sf]
  ELSE [proc |-> Ended(p, RetPkg(described(p.rs.json))),
        srcfs |-> RemoveAt(sf, p.rs.sourcePath)]

\* restorePluginFromBackup lines 21-25
restoreStart(p, mostRecent) ==
  IF mostRecent = NullPath THEN Ended(p, RetNull)
  ELSE [p EXCEPT !.mostRecent = mostRecent, !.pc = "rm"]

\* restorePluginFromBackup lines 27-32
restoreRemoved(p, f) ==
  [proc |-> [p EXCEPT !.pc = "rename"],
   fs |-> IF p.name \in DOMAIN f THEN Without(f, p.name) ELSE f]

\* restorePluginFromBackup lines 34-35, moved being the outcome of the rename
restoreRenamed(p, f, moved) ==
  IF moved.ok
  THEN [proc |-> [p EXCEPT !.pc = "read", !.log = @ \o RestoredLine(p.name)], fs |-> moved.fs]
  ELSE [proc |-> Ended(p, RetThrow(moved.err, p.name)), fs |-> f]

\* restorePluginFromBackup lines 36-44
restoreReadAt(p, f) ==
  IF p.name \in DOMAIN f
  THEN Ended(p, restoreRead(f, p.name, p.mostRecent, f[p.name]).ret)
  ELSE Ended(p, RetThrow("Could not read package.json or bower.json from backup of", p.name))

(***************************************************************************)
(* ContentPluginModule: the plugin records of the database (db, by plugin  *)
(* name, which stands for _id as well), the plugins each course enables    *)
(* (enabled), the schema files of each plugin in the framework directory   *)
(* (schemaFiles), the schemas registered (schemas), and the calls made to  *)
(* the CLI, the jsonschema module and the database, in order (events).     *)
(***************************************************************************)
AppNone == [kind |-> "none", err |-> "", arg |-> {}, data |-> <<>>]
AppThrow(e, a) == [AppNone EXCEPT !.kind = "throw", !.err = e, !.arg = a]
AppData(kind, d) == [AppNone EXCEPT !.kind = kind, !.data = d]

NoRecords == [n \in {} |-> {}]

NoApp ==
  [db |-> NoRecords, enabled |-> NoRecords, schemaFiles |-> NoRecords, schemas |-> {},
   events |-> <<>>, fn |-> "none", name |-> <<>>, versionOrPath |-> <<>>, force |-> FALSE,
   contents |-> <<>>, ret |-> AppNone, predb |-> NoRecords, preschemas |-> {}]

\* getPluginUses, lines 239-251: the courses whose config enables the plugin
getPluginUses(a, name) == {c \in DOMAIN a.enabled : name \in a.enabled[c]}

\* the schema files the glob of line 135 finds
SchemaPaths(a, name) == IF name \in DOMAIN a.schemaFiles THEN a.schemaFiles[name] ELSE {}

Deregistered(schemaPaths) ==
  [i \in 1..Len(schemaPaths) |-> <<"deregisterSchema", schemaPaths[i]>>]

\* lines 132-140, schemaPaths being the listing of the glob and cliOk telling
\* whether the CLI command resolves
deleteUnused(a, name, schemaPaths, cliOk) ==
  IF ~cliOk
  THEN [a EXCEPT !.schemas = @ \ SchemaPaths(a, name),
                 !.events = Deregistered(schemaPaths) \o <<<<"uninstallPlugins", name>>>>,
                 !.ret = AppThrow("CLI", {name})]
  ELSE [a EXCEPT !.schemas = @ \ SchemaPaths(a, name),
                 !.events = Deregistered(schemaPaths)
                            \o <<<<"uninstallPlugins", name>>, <<"delete", name>>>>,
                 !.db = Without(@, name),
                 !.ret = AppData("deleted", <<name>>)]

\* delete with the schemas deregistered before the uses are looked at
deleteCheckingUsesLate(a, name, schemaPaths, cliOk) ==
  IF name \notin DOMAIN a.db
  THEN [a EXCEPT !.ret = AppThrow("TypeError", {})]
  ELSE IF getPluginUses(a, name) # {}
  THEN [a EXCEPT !.schemas = @ \ SchemaPaths(a, name),
                 !.events = Deregistered(schemaPaths),
                 !.ret = AppThrow("CONTENTPLUGIN_IN_USE", getPluginUses(a, name))]
  ELSE deleteUnused(a, name, schemaPaths, cliOk)

\* delete(query, options, mongoOptions), lines 126-141, query._id naming the
\* plugin; without a record the destructuring of line 240 throws
delete(a, name, schemaPaths, cliOk) ==
  IF name \notin DOMAIN a.db
  THEN [a EXCEPT !.ret = AppThrow("TypeError", {})]
  ELSE IF getPluginUses(a, name) # {}
  THEN [a EXCEPT !.ret = AppThrow("CONTENTPLUGIN_IN_USE", getPluginUses(a, name))]
  ELSE deleteUnused(a, name, schemaPaths, cliOk)

(***************************************************************************)
(* The state: pluginDir, the upload area, and the last call with what it   *)
(* started from, returned and logged.                                      *)
(***************************************************************************)
VARIABLES
  fs,      \* pluginDir: entry name -> node
  srcfs,   \* the tree outside pluginDir
  call,    \* the last call: function, plugin name, source path, backup selected
  pre,     \* fs and srcfs when the last call started
  ret,     \* what the last call returned or threw
  log,     \* the lines the last call handed to its log callback
  calls,   \* number of calls so far
  batch,   \* the installPlugins call under way
  procs,   \* the utility calls under way, step by step
  app      \* ContentPluginModule: database, schemas, CLI, and its last call

vars == <<fs, srcfs, call, pre, ret, log, calls, batch, procs, app>>

\* two plugins, the name of the second being the first followed by -v...
PluginP == <<"a", "b">>
PluginQ == PluginP \o DashV \o <<"n">>
Names == {PluginP, PluginQ}

V190 == <<"1", ".", "9", ".", "0">>
V1100 == <<"1", ".", "1", "0", ".", "0">>
V15 == <<"1", ".", "5">>
V200 == <<"2", ".", "0", ".", "0">>
Times == {<<"1">>, <<"2">>}

BackupPath(name, token) == name \o DashV \o token

\* the directories an initial pluginDir may hold beside the installed PluginP
InitEntries ==
  (BackupPath(PluginP, V190) :>
     Dir(("package.json" :> File(Json(PluginP, V190, "stale")))
         @@ ("stale-file.txt" :> File(Text("stale")))))
  @@ (BackupPath(PluginP, V1100) :>
     Dir(("package.json" :> File(Json(PluginP, V1100, "old")))
         @@ ("bower.json" :> File(Json(PluginP, V15, "old-bower")))))
  @@ (BackupPath(PluginP, V15) :>
     Dir("bower.json" :> File(Json(PluginP, V15, "old"))))
  @@ (BackupPath(PluginP, Unknown \o <<"1">>) :>
     Dir("readme.txt" :> File(Text("old"))))
  @@ (PluginQ :>
     Dir("package.json" :> File(Json(PluginQ, V1100, "other"))))
  @@ (BackupPath(PluginQ, V190) :>
     Dir("package.json" :> File(Json(PluginQ, V190, "other-old"))))

\* the states of an installed PluginP
InstalledP ==
  { Dir(("package.json" :> File(Json(PluginP, V190, "cur")))
        @@ ("index.js" :> File(Text("cur")))),
    Dir("bower.json" :> File(Json(PluginP, V1100, "cur"))),
    Dir("readme.txt" :> File(Text("cur"))),
    Dir(("package.json" :> File(JsonNoVersion(PluginP, "cur")))
        @@ ("bower.json" :> File(Json(PluginP, V15, "cur")))),
    Dir(("package.json" :> File(Text("cur")))
        @@ ("bower.json" :> File(Json(PluginP, V200, "cur")))) }

\* unpacked sources: flat, nested in a single root folder, without metadata;
\* then a flat source of PluginQ, a root folder holding package.json alone, a
\* root folder without metadata, a package.json alone at the top, and a plugin
\* two folders deep
Sources ==
  { Dir(("package.json" :> File(Json(PluginP, V200, "new")))
        @@ ("index.js" :> File(Text("new")))),
    Dir("plugin" :> Dir(("bower.json" :> File(Json(PluginP, V15, "new")))
                        @@ ("index.js" :> File(Text("new"))))),
    Dir(("readme.txt" :> File(Text("new")))
        @@ ("index.js" :> File(Text("new")))),
    Dir(("package.json" :> File(Json(PluginQ, V200, "new-other")))
        @@ ("index.js" :> File(Text("new-other")))),
    Dir("plugin" :> Dir("package.json" :> File(Json(PluginP, V200, "alone")))),
    Dir("plugin" :> Dir("readme.txt" :> File(Text("new")))),
    Dir("package.json" :> File(Json(PluginP, V200, "top"))),
    Dir("plugin" :> Dir("inner" :> Dir(("package.json" :> File(Json(PluginP, V200, "deep")))
                                       @@ ("index.js" :> File(Text("deep")))))) }

UploadPath == <<"tmp", "upload">>
SourcePaths == {UploadPath, <<"4.3.5">>}
Tmp(node) == Dir("tmp" :> Dir("upload" :> node))
EmptyTmp == Dir("tmp" :> Dir(NoEntries))

InitFs ==
  { [e \in S |-> InitEntries[e]] :
      S \in {T \in SUBSET (DOMAIN InitEntries) :
               \A n \in Names :
                 Cardinality({e \in T : IsPrefix(n \o DashV, e)}) <= MaxBackups} }
  \cup
  { With([e \in S |-> InitEntries[e]], PluginP, d) :
      S \in {T \in SUBSET (DOMAIN InitEntries) :
               \A n \in Names :
                 Cardinality({e \in T : IsPrefix(n \o DashV, e)}) <= MaxBackups},
      d \in InstalledP }

\* the calls that run step by step
ProcIds == {1, 2}
NoProcs == [p \in ProcIds |-> NoProc]

NoCall == [fn |-> "none", name |-> <<>>, sourcePath |-> <<>>, mostRecent |-> NullPath,
           rmOk |-> TRUE]

Init ==
  /\ fs \in InitFs
  /\ srcfs = EmptyTmp
  /\ call = NoCall
  /\ pre = [fs |-> fs, srcfs |-> srcfs]
  /\ ret = RetNone
  /\ log = <<>>
  /\ calls = 0
  /\ batch = NoBatch
  /\ procs = NoProcs
  /\ app = NoApp

\* a source is unpacked into the upload area, once the area is free
Upload(node) ==
  /\ srcfs = EmptyTmp
  /\ srcfs' = Tmp(node)
  /\ call' = [NoCall EXCEPT !.fn = "upload"]
  /\ pre' = [fs |-> fs, srcfs |-> srcfs]
  /\ ret' = RetNone
  /\ log' = <<>>
  /\ UNCHANGED <<fs, calls, batch, procs, app>>

\* the last call ends: its effect on pluginDir, its result and its log lines
Returns(r) ==
  /\ fs' = r.fs
  /\ ret' = r.ret
  /\ log' = r.log

\* rmOk: whether the fs.rm of the call, if it reached one, went through
CalledWith(fn, name, sourcePath, mostRecent, rmOk) ==
  /\ call' = [fn |-> fn, name |-> name, sourcePath |-> sourcePath, mostRecent |-> mostRecent,
              rmOk |-> rmOk]
  /\ pre' = [fs |-> fs, srcfs |-> srcfs]
  /\ calls' = calls + 1
  /\ UNCHANGED <<batch, procs, app>>

Called(fn, name, sourcePath, mostRecent) == CalledWith(fn, name, sourcePath, mostRecent, TRUE)

BackupPluginVersion(name, now) ==
  /\ Returns(backupPluginVersion(fs, name, name, now))
  /\ Called("backupPluginVersion", name, <<>>, NullPath)
  /\ UNCHANGED srcfs

GetMostRecentBackup(name, r) ==
  /\ ret' = IF r = NullPath THEN RetNull ELSE RetPath(r)
  /\ log' = <<>>
  /\ Called("getMostRecentBackup", name, <<>>, r)
  /\ UNCHANGED <<fs, srcfs>>

CleanupOldPluginBackups(name, backups, mostRecent) ==
  /\ Returns(cleanupOldPluginBackups(fs, backups, mostRecent, name))
  /\ Called("cleanupOldPluginBackups", name, <<>>,
            IF Len(backups) <= 1 THEN NullPath ELSE mostRecent)
  /\ UNCHANGED srcfs

RestorePluginFromBackup(name, mostRecentBackup, rmOk) ==
  /\ Returns(restorePluginFromBackup(fs, mostRecentBackup, name, rmOk))
  /\ CalledWith("restorePluginFromBackup", name, <<>>, mostRecentBackup, rmOk)
  /\ UNCHANGED srcfs

ProcessReturns(r) ==
  /\ Returns(r)
  /\ srcfs' = r.srcfs

ProcessWith(pluginData, rs, b, now) ==
  \E mostRecent \in ResultsAfterBackup(rs, b) :
    \E backups \in ListingsBut(FoundAfterBackup(rs, b), mostRecent) :
      ProcessReturns(processPluginFiles(fs, srcfs, pluginData, now, backups, mostRecent))

ProcessPluginFiles(name, sourcePath, now) ==
  /\ ProcessWith([name |-> name, sourcePath |-> sourcePath],
                 resolveSource(srcfs, [name |-> name, sourcePath |-> sourcePath]),
                 backupExisting(fs, srcfs, [name |-> name, sourcePath |-> sourcePath], now),
                 now)
  /\ Called("processPluginFiles", name, sourcePath, NullPath)

\* Date.now() is read in the inner catch only (line 33): the values a call on
\* pluginPath can read, and a placeholder when it reads none
ClockReads(f, pluginPath) ==
  IF pluginPath \in DOMAIN f /\ versionWarning(f[pluginPath], pluginPath) # <<>>
  THEN Times ELSE {<<>>}

\* fs.rm is reached only with a backup selected and a directory at pluginPath
RmOutcomes(f, pluginName, mostRecentBackup) ==
  IF mostRecentBackup # NullPath /\ pluginName \in DOMAIN f THEN BOOLEAN ELSE {TRUE}

\* one step: a source arrives, or the application calls one of the utilities;
\* an upload is handed to processPluginFiles before anything else is called
UploadCall ==
  /\ calls < MaxCalls
  /\ \E node \in Sources : Upload(node)

BackupCall ==
  /\ calls < MaxCalls
  /\ call.fn # "upload"
  /\ \E name \in Names : \E now \in ClockReads(fs, name) : BackupPluginVersion(name, now)

MostRecentCall ==
  /\ calls < MaxCalls
  /\ call.fn # "upload"
  /\ \E name \in Names : \E r \in MostRecentResults(fs, name) :
       GetMostRecentBackup(name, r)

CleanupCall ==
  /\ calls < MaxCalls
  /\ call.fn # "upload"
  /\ \E name \in Names : \E mostRecent \in MostRecentResults(fs, name) :
       \E backups \in ListingsBut(Matches(fs, name), mostRecent) :
         CleanupOldPluginBackups(name, backups, mostRecent)

RestoreCall ==
  /\ calls < MaxCalls
  /\ call.fn # "upload"
  /\ \E name \in Names : \E mostRecentBackup \in MostRecentResults(fs, name) :
       \E rmOk \in RmOutcomes(fs, name, mostRecentBackup) :
         RestorePluginFromBackup(name, mostRecentBackup, rmOk)

ProcessCall ==
  /\ calls < MaxCalls
  /\ \E name \in Names, sourcePath \in SourcePaths :
       \E now \in ClockReads(fs, resolveSource(srcfs, [name |-> name,
                                                      sourcePath |-> sourcePath]).json.name) :
         ProcessPluginFiles(name, sourcePath, now)

Next ==
  \/ UploadCall
  \/ BackupCall
  \/ MostRecentCall
  \/ CleanupCall
  \/ RestoreCall
  \/ ProcessCall

Spec == Init /\ [][Next]_vars

(***************************************************************************)
(* One call of installPlugins: the batch and options.strict are its        *)
(* arguments; its installs settle in any order.                            *)
(***************************************************************************)
Entries == [name : Names, ok : BOOLEAN]
Batches == UNION {[1..n -> Entries] : n \in 0..MaxBatch}

BatchInit ==
  /\ batch \in {NewBatch(plugins, strict) : plugins \in Batches, strict \in BOOLEAN}
  /\ fs = [e \in {} |-> Missing]
  /\ srcfs = EmptyTmp
  /\ call = NoCall
  /\ pre = [fs |-> fs, srcfs |-> srcfs]
  /\ ret = RetNone
  /\ log = <<>>
  /\ calls = 0
  /\ procs = NoProcs
  /\ app = NoApp

StartInstalls ==
  /\ batch.phase = "called"
  /\ batch' = startAll(batch)
  /\ UNCHANGED <<fs, srcfs, call, pre, ret, log, calls, procs, app>>

SettleInstall ==
  /\ batch.phase = "awaiting"
  /\ \E i \in 1..Len(batch.plugins) :
       /\ batch.status[i] = "running"
       /\ batch' = settle(batch, i)
       /\ log' = Append(log, settleLine(batch, i))
  /\ UNCHANGED <<fs, srcfs, call, pre, ret, calls, procs, app>>

FinishInstalls ==
  /\ batch.phase = "awaiting"
  /\ \A i \in 1..Len(batch.plugins) : batch.status[i] \in {"resolved", "rejected"}
  /\ batch' = finish(batch)
  /\ UNCHANGED <<fs, srcfs, call, pre, ret, log, calls, procs, app>>

BatchNext ==
  \/ StartInstalls
  \/ SettleInstall
  \/ FinishInstalls

BatchSpec == BatchInit /\ [][BatchNext]_vars

(***************************************************************************)
(* The utilities step by step: up to two calls of processPluginFiles,      *)
(* cleanupOldPluginBackups or restorePluginFromBackup are under way, each  *)
(* await is one step, and the steps of the two calls interleave.  A call   *)
(* of processPluginFiles running alone may be cut off by a crash of the    *)
(* application and is then called again on the same source.                *)
(***************************************************************************)
StepOps == {"processPluginFiles", "cleanupOldPluginBackups", "restorePluginFromBackup"}

\* where the source of each call of processPluginFiles is unpacked
StepUpload(p) == <<"tmp", IF p = 1 THEN "upload" ELSE "other">>

\* the source processed for a plugin: version 2.0.0 of it
StepSource(name) ==
  Dir(("package.json" :> File(Json(name, V200, "new")))
      @@ ("index.js" :> File(Text("new"))))

\* a third plugin, whose name has nothing in common with the two others
PluginR == <<"c">>
StepNames == Names \cup {PluginR}

StepEntries ==
  InitEntries
  @@ (PluginR :>
     Dir("package.json" :> File(Json(PluginR, V1100, "third"))))
  @@ (BackupPath(PluginR, V190) :>
     Dir("package.json" :> File(Json(PluginR, V190, "third-old"))))
  @@ (BackupPath(PluginR, V15) :>
     Dir("bower.json" :> File(Json(PluginR, V15, "third-old"))))

StepInstalled ==
  Dir(("package.json" :> File(Json(PluginP, V190, "cur")))
      @@ ("index.js" :> File(Text("cur"))))

StepDirs ==
  { {},
    {BackupPath(PluginP, V1100)},
    {BackupPath(PluginP, V1100), BackupPath(PluginP, V15)},
    {PluginQ},
    {PluginQ, BackupPath(PluginQ, V190)},
    {BackupPath(PluginP, V1100), PluginQ, BackupPath(PluginQ, V190)},
    {PluginR, BackupPath(PluginR, V190)},
    {BackupPath(PluginP, V1100), BackupPath(PluginR, V190), BackupPath(PluginR, V15)} }

StepFs ==
  { [e \in S |-> StepEntries[e]] : S \in StepDirs }
  \cup { With([e \in S |-> StepEntries[e]], PluginP, StepInstalled) : S \in StepDirs }

StepCalls(p) ==
  {NoProc}
  \cup { NewProc(op, name, IF op = "processPluginFiles" THEN StepUpload(p) ELSE <<>>) :
           op \in StepOps, name \in StepNames }

\* the upload area holding the source of every call of processPluginFiles
StepTmp(ps) ==
  Dir("tmp" :> Dir([k \in {StepUpload(p)[2] : p \in {q \in ProcIds :
                                    ps[q].op = "processPluginFiles"}} |->
                      StepSource(ps[CHOOSE p \in ProcIds : StepUpload(p)[2] = k].name)]))

StepInit ==
  /\ fs \in StepFs
  /\ procs \in {ps \in [ProcIds -> UNION {StepCalls(p) : p \in ProcIds}] :
                  \A p \in ProcIds : ps[p] \in StepCalls(p)}
  /\ srcfs = StepTmp(procs)
  /\ call = NoCall
  /\ pre = [fs |-> fs, srcfs |-> srcfs]
  /\ ret = RetNone
  /\ log = <<>>
  /\ calls = 0
  /\ batch = NoBatch
  /\ app = NoApp

\* the calls that had ended when a call starts
EndedCalls == {q \in ProcIds : procs[q].op # "none" /\ procs[q].pc = "done"}

began(p) == [p EXCEPT !.runs = @ + 1, !.after = EndedCalls]

\* call p takes a step that leaves it as proc, pluginDir as f and the upload
\* area as sf
Proceeds(p, proc, f, sf) ==
  /\ procs' = [procs EXCEPT ![p] = proc]
  /\ fs' = f
  /\ srcfs' = sf
  /\ UNCHANGED <<call, pre, ret, log, calls, batch, app>>

At(p, op, pc) == procs[p].op = op /\ procs[p].pc = pc

\* processPluginFiles lines 22-41
ResolveStep ==
  \E p \in ProcIds :
    /\ At(p, "processPluginFiles", "start")
    /\ Proceeds(p, processStart(began(procs[p]), fs, srcfs,
                                resolveSource(srcfs, [name |-> procs[p].name,
                                                      sourcePath |-> procs[p].sourcePath])),
                fs, srcfs)

BackupWith(p, b) == Proceeds(p, processBackup(procs[p], b), b.fs, srcfs)

\* processPluginFiles line 44
BackupStep ==
  \E p \in ProcIds :
    /\ At(p, "processPluginFiles", "backup")
    /\ \E now \in ClockReads(fs, procs[p].rs.json.name) :
         BackupWith(p, backupPluginVersion(fs, procs[p].rs.json.name,
                                           procs[p].rs.json.name, now))

\* cleanupOldPluginBackups lines 14-19, called by itself
CleanupStartStep ==
  \E p \in ProcIds :
    /\ At(p, "cleanupOldPluginBackups", "start")
    /\ \E backups \in Listings(Matches(fs, procs[p].name)) :
         Proceeds(p, globbed(began(procs[p]), backups), fs, srcfs)

\* cleanupOldPluginBackups lines 14-19, called at processPluginFiles line 47
GlobStep ==
  \E p \in ProcIds :
    /\ At(p, "processPluginFiles", "glob")
    /\ \E backups \in Listings(Matches(fs, procs[p].rs.json.name)) :
         Proceeds(p, globbed(procs[p], backups), fs, srcfs)

\* cleanupOldPluginBackups lines 21-23
SelectStep ==
  \E p \in ProcIds :
    /\ procs[p].pc = "select"
    /\ \E mostRecent \in MostRecentResults(fs, PluginOf(procs[p])) :
         Proceeds(p, selected(procs[p], mostRecent), fs, srcfs)

RemoveWith(p, r) == Proceeds(p, r.proc, r.fs, srcfs)

\* cleanupOldPluginBackups lines 24-27, one backup
RemoveStep ==
  \E p \in ProcIds :
    /\ procs[p].pc = "remove"
    /\ RemoveWith(p, removedNext(procs[p], fs))

\* processPluginFiles line 50
CopyStep ==
  \E p \in ProcIds :
    /\ At(p, "processPluginFiles", "copy")
    /\ RemoveWith(p, copied(procs[p], fs, Lookup(srcfs, procs[p].rs.sourcePath)))

DeleteWith(p, r) == Proceeds(p, r.proc, fs, r.srcfs)

\* processPluginFiles lines 51-52
DeleteStep ==
  \E p \in ProcIds :
    /\ At(p, "processPluginFiles", "delete")
    /\ DeleteWith(p, deleted(procs[p], srcfs, Lookup(srcfs, procs[p].rs.sourcePath)))

\* restorePluginFromBackup lines 21-25
RestoreStartStep ==
  \E p \in ProcIds :
    /\ At(p, "restorePluginFromBackup", "start")
    /\ \E mostRecent \in MostRecentResults(fs, procs[p].name) :
         Proceeds(p, restoreStart(began(procs[p]), mostRecent), fs, srcfs)

\* restorePluginFromBackup lines 27-32
RestoreRmStep ==
  \E p \in ProcIds :
    /\ At(p, "restorePluginFromBackup", "rm")
    /\ RemoveWith(p, restoreRemoved(procs[p], fs))

\* restorePluginFromBackup lines 34-35
RestoreRenameStep ==
  \E p \in ProcIds :
    /\ At(p, "restorePluginFromBackup", "rename")
    /\ RemoveWith(p, restoreRenamed(procs[p], fs,
                                    rename(fs, procs[p].mostRecent, procs[p].name)))

\* restorePluginFromBackup lines 36-44
RestoreReadStep ==
  \E p \in ProcIds :
    /\ At(p, "restorePluginFromBackup", "read")
    /\ Proceeds(p, restoreReadAt(procs[p], fs), fs, srcfs)

\* the only call under way, a first run of processPluginFiles
Alone(p) ==
  /\ procs[p].op = "processPluginFiles"
  /\ procs[p].runs = 1
  /\ \A q \in ProcIds \ {p} : procs[q].op = "none"

\* the application crashes between two steps, before the source is deleted
Crash ==
  \E p \in ProcIds :
    /\ Alone(p)
    /\ procs[p].pc \in {"backup", "glob", "select", "remove", "copy", "delete"}
    /\ Proceeds(p, [procs[p] EXCEPT !.pc = "crashed", !.cut = procs[p].pc], fs, srcfs)

\* what a copy cut short has written: some entries of the source
PartOf(node) ==
  {Dir([k \in S |-> node.entries[k]]) :
     S \in {T \in SUBSET (DOMAIN node.entries) : T # {} /\ T # DOMAIN node.entries}}

\* the application crashes during the copy of line 50
CrashInCopy ==
  \E p \in ProcIds :
    /\ Alone(p)
    /\ procs[p].pc = "copy"
    /\ \E part \in PartOf(Lookup(srcfs, procs[p].rs.sourcePath)) :
         Proceeds(p, [procs[p] EXCEPT !.pc = "crashed", !.cut = "copying"],
                  cp(fs, part, procs[p].rs.json.name), srcfs)

\* processPluginFiles is called again with the same arguments
Rerun ==
  \E p \in ProcIds :
    /\ procs[p].pc = "crashed"
    /\ Proceeds(p, [NewProc(procs[p].op, procs[p].name, procs[p].sourcePath)
                      EXCEPT !.runs = procs[p].runs, !.cut = procs[p].cut],
                fs, srcfs)

StepNext ==
  \/ ResolveStep
  \/ BackupStep
  \/ CleanupStartStep
  \/ GlobStep
  \/ SelectStep
  \/ RemoveStep
  \/ CopyStep
  \/ DeleteStep
  \/ RestoreStartStep
  \/ RestoreRmStep
  \/ RestoreRenameStep
  \/ RestoreReadStep
  \/ Crash
  \/ CrashInCopy
  \/ Rerun

StepSpec == StepInit /\ [][StepNext]_vars

(***************************************************************************)
(* ContentPluginModule: one call of installPlugin, delete or loadJsonData. *)
(***************************************************************************)
\* a version given in place of a source path, as the characters of its text
VersionChars(segment) ==
  CASE segment = "4.3.5" -> <<"4", ".", "3", ".", "5">>
    [] segment = "1.9.0" -> V190
    [] OTHER -> <<>>

\* processPluginFiles of the module, lines 324-349, rs being the source as
\* resolved by lines 325-344; name is pluginData.name
staged(f, sf, name, versionOrPath, rs) ==
  IF rs.status = "bare"
  THEN [ok |-> TRUE, fs |-> f, srcfs |-> sf, err |-> "",
        pkg |-> [NoPkg EXCEPT !.name = name, !.hasVersion = TRUE,
                              !.version = VersionChars(versionOrPath[1])]]
  ELSE IF rs.status \in {"ENOENT", "ENOTDIR"}
  THEN [ok |-> FALSE, fs |-> f, srcfs |-> sf, err |-> rs.status, pkg |-> NoPkg]
  ELSE IF rs.status = "invalid"
  THEN [ok |-> FALSE, fs |-> f, srcfs |-> sf, err |-> "CONTENTPLUGIN_INVALID_ZIP",
        pkg |-> NoPkg]
  ELSE [ok |-> TRUE, fs |-> cp(f, rs.src, rs.json.name),
        srcfs |-> RemoveAt(sf, rs.sourcePath), err |-> "", pkg |-> described(rs.json)]

\* the source staged only once the version check of lines 293-299 has passed
stagedAfterCheck(f, sf, name, versionOrPath, rs) ==
  IF rs.status = "ok"
  THEN [ok |-> TRUE, fs |-> f, srcfs |-> sf, err |-> "", pkg |-> described(rs.json)]
  ELSE staged(f, sf, name, versionOrPath, rs)

\* lines 300-315: the CLI install, the database write and the checks on both
cliInstalled(a, pkg, cliOk, hasAttr) ==
  IF ~cliOk
  THEN [a EXCEPT !.events = <<<<"installPlugins", pkg.name>>, <<"insertOrUpdate", pkg.name>>>>,
                 !.db = With(@, pkg.name, [version |-> pkg.version,
                                           isLocalInstall |-> pkg.isLocalInstall]),
                 !.ret = AppThrow("CONTENTPLUGIN_CLI_INSTALL_FAILED", {pkg.name})]
  ELSE IF ~hasAttr
  THEN [a EXCEPT !.events = <<<<"installPlugins", pkg.name>>, <<"insertOrUpdate", pkg.name>>>>,
                 !.db = With(@, pkg.name, [version |-> pkg.version,
                                           isLocalInstall |-> pkg.isLocalInstall]),
                 !.ret = AppThrow("CONTENTPLUGIN_ATTR_MISSING", {pkg.name})]
  ELSE [a EXCEPT !.events = <<<<"installPlugins", pkg.name>>, <<"insertOrUpdate", pkg.name>>,
                              <<"processPluginSchemas", pkg.name>>>>,
                 !.db = With(@, pkg.name, [version |-> pkg.version,
                                           isLocalInstall |-> pkg.isLocalInstall]),
                 !.ret = AppData("info", <<pkg.name, pkg.version>>)]

\* lines 293-315, st being what processPluginFiles has ended with; semver.lte
\* throws on a version that is not a valid semver
checked(a, st, pluginName, force, cliOk, hasAttr) ==
  IF ~st.ok THEN [a EXCEPT !.ret = AppThrow(st.err, {})]
  ELSE IF pluginName \in DOMAIN a.db /\ ~force
          /\ (~st.pkg.hasVersion \/ ~valid(st.pkg.version)
              \/ ~valid(a.db[pluginName].version))
  THEN [a EXCEPT !.ret = AppThrow("TypeError", {})]
  ELSE IF pluginName \in DOMAIN a.db /\ ~force
          /\ compare(st.pkg.version, a.db[pluginName].version) <= 0
  THEN [a EXCEPT !.ret = AppThrow("CONTENTPLUGIN_ALREADY_EXISTS",
                                  {<<pluginName, a.db[pluginName].version>>})]
  ELSE cliInstalled(a, st.pkg, cliOk, hasAttr)

\* installPlugin(pluginName, versionOrPath, options), lines 289-316
installPlugin(a, st, pluginName, force, cliOk, hasAttr) ==
  [app |-> checked(a, st, pluginName, force, cliOk, hasAttr), fs |-> st.fs, srcfs |-> st.srcfs]

\* the content of a JSON file: an array of elements, a single object, or text
\* that does not parse
JsonArray(items) == [parses |-> TRUE, isArray |-> TRUE, items |-> items]
JsonObject(item) == [parses |-> TRUE, isArray |-> FALSE, items |-> <<item>>]
NotJson == [parses |-> FALSE, isArray |-> FALSE, items |-> <<>>]

\* loadJsonData(filePaths), lines 448-460, from the file at the head of
\* contents on, data being the array declared at line 449.  The const of line
\* 452 hides it inside the loop: an array is pushed onto itself, an object has
\* no push
RECURSIVE loadFrom(_, _)
loadFrom(contents, data) ==
  IF contents = <<>> THEN AppData("data", data)
  ELSE IF ~Head(contents).parses THEN AppThrow("SyntaxError", {})
  ELSE IF Head(contents).isArray THEN loadFrom(Tail(contents), data)
  ELSE AppThrow("TypeError", {})

loadJsonData(contents) == loadFrom(contents, <<>>)

\* an installed version of PluginP with a file that no source holds
InstalledAt(version) ==
  Dir(("package.json" :> File(Json(PluginP, version, "cur")))
      @@ ("legacy.js" :> File(Text("cur"))))

Courses == {"c1", "c2"}
SchemaFiles == (PluginP :> {"s1", "s2"}) @@ (PluginQ :> {"s3"})

\* what the database records and pluginDir holds of PluginP, a plugin being
\* installed from local files or by the CLI alone
ModuleStates ==
  { [fs |-> [e \in {} |-> Missing], db |-> NoRecords],
    [fs |-> [e \in {} |-> Missing],
     db |-> (PluginP :> [version |-> V190, isLocalInstall |-> FALSE])],
    [fs |-> (PluginP :> InstalledAt(V190)),
     db |-> (PluginP :> [version |-> V190, isLocalInstall |-> TRUE])],
    [fs |-> (PluginP :> InstalledAt(V200)),
     db |-> (PluginP :> [version |-> V200, isLocalInstall |-> TRUE])] }

OtherRecords == {NoRecords, (PluginQ :> [version |-> V1100, isLocalInstall |-> FALSE])}

JsonFiles ==
  {JsonArray(<<"a1", "a2">>), JsonArray(<<>>), JsonObject("o1"), NotJson}
MaxFiles == 2

ModuleInit ==
  /\ \E m \in ModuleStates, o \in OtherRecords :
       /\ fs = m.fs
       /\ \E enabled \in [Courses -> SUBSET Names] :
            app = [NoApp EXCEPT !.db = m.db @@ o, !.predb = m.db @@ o,
                                !.enabled = enabled,
                                !.schemaFiles = [n \in DOMAIN (m.db @@ o) |-> SchemaFiles[n]],
                                !.schemas = UNION {SchemaFiles[n] : n \in DOMAIN (m.db @@ o)},
                                !.preschemas = UNION {SchemaFiles[n] : n \in DOMAIN (m.db @@ o)}]
  /\ srcfs \in {EmptyTmp} \cup {Tmp(node) : node \in Sources}
  /\ pre = [fs |-> fs, srcfs |-> srcfs]
  /\ call = NoCall
  /\ ret = RetNone
  /\ log = <<>>
  /\ calls = 0
  /\ batch = NoBatch
  /\ procs = NoProcs

\* the module's call, with its arguments, leaves the module as a
AppCalled(a, fn, name, versionOrPath, force) ==
  /\ app' = [a EXCEPT !.fn = fn, !.name = name, !.versionOrPath = versionOrPath,
                      !.force = force]
  /\ UNCHANGED <<call, pre, ret, log, calls, batch, procs>>

InstallEnds(r, pluginName, versionOrPath, force) ==
  /\ fs' = r.fs
  /\ srcfs' = r.srcfs
  /\ AppCalled(r.app, "installPlugin", pluginName, versionOrPath, force)

InstallPluginCall ==
  /\ app.fn = "none"
  /\ \E pluginName \in Names, versionOrPath \in {UploadPath, <<"4.3.5">>, <<"1.9.0">>},
        force \in BOOLEAN, cliOk \in BOOLEAN, hasAttr \in BOOLEAN :
       InstallEnds(installPlugin(app,
                                 staged(fs, srcfs,
                                        IF pluginName \in DOMAIN app.db THEN pluginName
                                        ELSE Undefined,
                                        versionOrPath,
                                        resolveSource(srcfs, [name |-> pluginName,
                                                              sourcePath |-> versionOrPath])),
                                 pluginName, force, cliOk, hasAttr),
                   pluginName, versionOrPath, force)

DeleteCall ==
  /\ app.fn = "none"
  /\ \E name \in Names, cliOk \in BOOLEAN :
       \E schemaPaths \in Listings(SchemaPaths(app, name)) :
         /\ AppCalled(delete(app, name, schemaPaths, cliOk), "delete", name, <<>>, FALSE)
         /\ UNCHANGED <<fs, srcfs>>

LoadJsonDataCall ==
  /\ app.fn = "none"
  /\ \E contents \in UNION {[1..n -> JsonFiles] : n \in 0..MaxFiles} :
       /\ AppCalled([app EXCEPT !.ret = loadJsonData(contents), !.contents = contents],
                    "loadJsonData", <<>>, <<>>, FALSE)
       /\ UNCHANGED <<fs, srcfs>>

ModuleNext ==
  \/ InstallPluginCall
  \/ DeleteCall
  \/ LoadJsonDataCall

ModuleSpec == ModuleInit /\ [][ModuleNext]_vars

(***************************************************************************)
(* Properties.  Each is read in the state a call has just returned into:   *)
(* call names the function and its arguments, pre holds the filesystem the *)
(* call started from, ret and log what it returned and logged.             *)
(***************************************************************************)

\* the version token of an entry: its name after <pluginName>-v
VersionToken(pluginName, entry) == Replace(entry, pluginName \o DashV)

\* a version was read from package.json, or else from bower.json
ReadableVersion(dir) ==
  \/ ReadOk(dir, "package.json") /\ readJson(dir, "package.json").hasVersion
  \/ /\ ~ReadOk(dir, "package.json")
     /\ ReadOk(dir, "bower.json") /\ readJson(dir, "bower.json").hasVersion

\* that version
VersionRead(dir) ==
  IF ReadOk(dir, "package.json") THEN readJson(dir, "package.json").version
  ELSE readJson(dir, "bower.json").version

\* a directory that holds at least one entry
NonEmptyDir(f, path) ==
  path \in DOMAIN f /\ f[path].kind = "dir" /\ DOMAIN f[path].entries # {}

\* the entries of f that belong to another plugin whose name is pluginName
\* followed by -v...: its canonical directory and its backups
Foreign(f, pluginName) ==
  {e \in DOMAIN f : \E q \in Names \ {pluginName} :
     /\ IsPrefix(pluginName \o DashV, q)
     /\ e = q \/ IsPrefix(q \o DashV, e)}

\* the backups of pluginName itself
OwnBackups(f, pluginName) == Matches(f, pluginName) \ Foreign(f, pluginName)

\* x is strictly more recent than y under the pairwise rule: semver precedence
\* when both tokens are valid, else the lexicographic order of the two names
MoreRecent(pluginName, x, y) ==
  IF valid(VersionToken(pluginName, x)) /\ valid(VersionToken(pluginName, y))
  THEN compare(VersionToken(pluginName, x), VersionToken(pluginName, y)) > 0
  ELSE localeCompare(x, y) > 0

\* the pairwise rule orders the set M consistently: being more recent is
\* transitive, and so is being neither more nor less recent
ConsistentOrder(pluginName, M) ==
  \A x, y, z \in M :
    /\ MoreRecent(pluginName, x, y) /\ MoreRecent(pluginName, y, z)
         => MoreRecent(pluginName, x, z)
    /\ ( /\ ~MoreRecent(pluginName, x, y) /\ ~MoreRecent(pluginName, y, x)
         /\ ~MoreRecent(pluginName, y, z) /\ ~MoreRecent(pluginName, z, y) )
         => ~MoreRecent(pluginName, x, z) /\ ~MoreRecent(pluginName, z, x)

\* C1: backupPluginVersion, called while a non-empty directory occupies the
\* backup path <pluginPath>-v<version>, returns that path, leaves the canonical
\* path absent and the backup path holding the content just moved, none of the
\* stale content.
C1_StaleBackupReplaced ==
  /\ call.fn = "backupPluginVersion"
  /\ call.name \in DOMAIN pre.fs
  /\ ReadableVersion(pre.fs[call.name])
  /\ NonEmptyDir(pre.fs, call.name \o DashV \o VersionRead(pre.fs[call.name]))
  => /\ ret = RetPath(call.name \o DashV \o VersionRead(pre.fs[call.name]))
     /\ call.name \notin DOMAIN fs
     /\ call.name \o DashV \o VersionRead(pre.fs[call.name]) \in DOMAIN fs
     /\ fs[call.name \o DashV \o VersionRead(pre.fs[call.name])] = pre.fs[call.name]

\* the source processPluginFiles resolved in the last call
ResolvedSource == resolveSource(pre.srcfs, [name |-> call.name, sourcePath |-> call.sourcePath])

\* C2: after processPluginFiles completes for a local source naming plugin N with
\* version W, N having been installed with readable version V, the directory
\* N-vV exists and holds the former canonical content and N holds version W,
\* whatever backups of N existed before.  (Stated for the calls that find no
\* directory of another plugin among the entries matching N-v*.)
C2_BackupOfReplacedVersionKept ==
  /\ call.fn = "processPluginFiles"
  /\ ret.kind = "pkg"
  /\ ResolvedSource.status = "ok"
  /\ ResolvedSource.json.name \in DOMAIN pre.fs
  /\ Foreign(pre.fs, ResolvedSource.json.name) = {}
  /\ ReadableVersion(pre.fs[ResolvedSource.json.name])
  => /\ ResolvedSource.json.name \o DashV \o VersionRead(pre.fs[ResolvedSource.json.name])
          \in DOMAIN fs
     /\ fs[ResolvedSource.json.name \o DashV
             \o VersionRead(pre.fs[ResolvedSource.json.name])]
          = pre.fs[ResolvedSource.json.name]
     /\ ResolvedSource.json.name \in DOMAIN fs
     /\ ReadableVersion(fs[ResolvedSource.json.name])
     /\ VersionRead(fs[ResolvedSource.json.name]) = ResolvedSource.json.version

\* C3: after cleanupOldPluginBackups returns, at most one entry matching
\* <name>-v* remains; if any existed, exactly one remains and it is the one
\* getMostRecentBackup selected; if at most one existed, nothing is deleted and
\* nothing is logged.
C3_AtMostOneBackupRemains ==
  call.fn = "cleanupOldPluginBackups" /\ ret.kind = "void"
  => /\ Cardinality(Matches(fs, call.name)) <= 1
     /\ Matches(pre.fs, call.name) # {}
          => /\ Cardinality(Matches(fs, call.name)) = 1
             /\ Matches(fs, call.name) \subseteq MostRecentResults(pre.fs, call.name)
             /\ call.mostRecent # NullPath => Matches(fs, call.name) = {call.mostRecent}
     /\ Cardinality(Matches(pre.fs, call.name)) <= 1 => fs = pre.fs /\ log = <<>>
     /\ \A e \in DOMAIN fs : fs[e] = pre.fs[e]

\* a retention run over three or more matching entries left the selected one
C3_Witness ==
  /\ call.fn = "cleanupOldPluginBackups"
  /\ Cardinality(Matches(pre.fs, call.name)) >= 3
  /\ call.mostRecent \in Matches(pre.fs, call.name)
  /\ Matches(fs, call.name) = {call.mostRecent}
  /\ Len(log) = Cardinality(Matches(pre.fs, call.name)) - 1

\* C4: getMostRecentBackup returns null when no entry matches <pluginName>-v*;
\* when every candidate's token is a valid semantic version it returns the
\* candidate of highest semver precedence; when every candidate's token is
\* non-semver it returns the candidate whose path is lexicographically greatest.
C4_SelectsHighestOfOneKind ==
  call.fn = "getMostRecentBackup"
  => /\ Matches(pre.fs, call.name) = {} => ret = RetNull
     /\ Matches(pre.fs, call.name) # {}
          => ret.kind = "path" /\ ret.path \in Matches(pre.fs, call.name)
     /\ ( /\ Matches(pre.fs, call.name) # {}
          /\ \A e \in Matches(pre.fs, call.name) : valid(VersionToken(call.name, e)) )
          => \A e \in Matches(pre.fs, call.name) :
               compare(VersionToken(call.name, ret.path), VersionToken(call.name, e)) >= 0
     /\ ( /\ Matches(pre.fs, call.name) # {}
          /\ \A e \in Matches(pre.fs, call.name) : ~valid(VersionToken(call.name, e)) )
          => \A e \in Matches(pre.fs, call.name) :
               localeCompare(ret.path, e) >= 0 /\ codeUnitCompare(ret.path, e) >= 0

\* of the backups 1.9.0 and 1.10.0 the selector returned 1.10.0
C4_Witness ==
  /\ call.fn = "getMostRecentBackup"
  /\ Matches(pre.fs, call.name) = {BackupPath(PluginP, V190), BackupPath(PluginP, V1100)}
  /\ ret = RetPath(BackupPath(PluginP, V1100))

C6_NoPrefixCollision ==
  call.fn = "getMostRecentBackup"
  => /\ ret.kind = "path" => ret.path \notin Foreign(pre.fs, call.name)
     /\ OwnBackups(pre.fs, call.name) = {} => ret = RetNull

\* C7: cleanupOldPluginBackups(pluginDir, P) leaves every entry that is not a
\* backup of P as it was: the canonical directory of P, and the canonical
\* directories and backups of every other plugin.
C7_OnlyOwnBackupsRemoved ==
  call.fn = "cleanupOldPluginBackups"
  => \A e \in (DOMAIN pre.fs) \ OwnBackups(pre.fs, call.name) :
       e \in DOMAIN fs /\ fs[e] = pre.fs[e]

\* C8: restorePluginFromBackup called when the plugin has no backup returns
\* null, changes nothing on the filesystem (an existing canonical directory
\* keeps its content) and logs nothing.
C8_NothingToRestore ==
  call.fn = "restorePluginFromBackup" /\ OwnBackups(pre.fs, call.name) = {}
  => ret = RetNull /\ fs = pre.fs /\ log = <<>>

\* C9: after restorePluginFromBackup succeeds, the canonical directory holds
\* exactly the content of the backup getMostRecentBackup selected, that backup
\* path is gone, the descriptor carries the restored metadata's name and
\* version, and if exactly one backup existed before then no backup of the
\* plugin remains.
C9_RestoredFromSelectedBackup ==
  call.fn = "restorePluginFromBackup" /\ ret.kind = "pkg"
  => /\ call.mostRecent \in DOMAIN pre.fs
     /\ call.name \in DOMAIN fs
     /\ fs[call.name] = pre.fs[call.mostRecent]
     /\ call.mostRecent \notin DOMAIN fs
     /\ ReadOk(fs[call.name], "package.json") \/ ReadOk(fs[call.name], "bower.json")
     /\ ret.pkg.name = IF ReadOk(fs[call.name], "package.json")
                       THEN readJson(fs[call.name], "package.json").name
                       ELSE readJson(fs[call.name], "bower.json").name
     /\ ret.pkg.hasVersion /\ ret.pkg.version = VersionRead(fs[call.name])
     /\ Cardinality(OwnBackups(pre.fs, call.name)) = 1 => OwnBackups(fs, call.name) = {}

\* the restore moved the selected backup to the canonical path
Swapped ==
  /\ call.fn = "restorePluginFromBackup"
  /\ call.mostRecent \in DOMAIN pre.fs
  /\ call.mostRecent \notin DOMAIN fs
  /\ call.name \in DOMAIN fs
  /\ fs[call.name] = pre.fs[call.mostRecent]

\* C10: restorePluginFromBackup reads the restored directory's metadata from
\* package.json, falling back to bower.json; when neither is present or
\* parseable it fails with an error naming the plugin and returns no descriptor.
C10_RestoreMetadataOrder ==
  Swapped
  => IF ReadOk(pre.fs[call.mostRecent], "package.json")
     THEN /\ ret.kind = "pkg"
          /\ ret.pkg.tag = readJson(pre.fs[call.mostRecent], "package.json").tag
          /\ ret.pkg.name = readJson(pre.fs[call.mostRecent], "package.json").name
          /\ ret.pkg.version = readJson(pre.fs[call.mostRecent], "package.json").version
     ELSE IF ReadOk(pre.fs[call.mostRecent], "bower.json")
     THEN /\ ret.kind = "pkg"
          /\ ret.pkg.tag = readJson(pre.fs[call.mostRecent], "bower.json").tag
          /\ ret.pkg.name = readJson(pre.fs[call.mostRecent], "bower.json").name
          /\ ret.pkg.version = readJson(pre.fs[call.mostRecent], "bower.json").version
     ELSE /\ ret.kind = "throw"
          /\ ret.err = "Could not read package.json or bower.json from backup of"
          /\ ret.arg = call.name

\* a backup holding both files was restored and described from its package.json
C10_Witness ==
  /\ Swapped
  /\ ReadOk(pre.fs[call.mostRecent], "package.json")
  /\ ReadOk(pre.fs[call.mostRecent], "bower.json")
  /\ ret.kind = "pkg"
  /\ ret.pkg.version = V1100

\* the lines of the given level among the lines a call logged
LinesAt(level) == SelectSeq(log, LAMBDA line : line.level = level)

\* C11: restorePluginFromBackup emits its informational line exactly when the
\* restore succeeds: one info line naming the plugin when it returns a
\* descriptor, no info line when it returns null or fails because the restored
\* metadata is unreadable.
C11_InfoLineExactlyOnSuccess ==
  call.fn = "restorePluginFromBackup"
  => /\ ret.kind = "pkg" => LinesAt("info") = RestoredLine(call.name)
     /\ ret.kind = "null" => LinesAt("info") = <<>>
     /\ ( /\ ret.kind = "throw"
          /\ ret.err = "Could not read package.json or bower.json from backup of" )
          => LinesAt("info") = <<>>

\* C12: backupPluginVersion called on a canonical path that does not exist
\* returns null, logs nothing and changes nothing on the filesystem.
C12_MissingPluginBackupIsNoOp ==
  call.fn = "backupPluginVersion" /\ call.name \notin DOMAIN pre.fs
  => ret = RetNull /\ log = <<>> /\ fs = pre.fs /\ srcfs = pre.srcfs

\* a backup was asked for a plugin that is not installed though earlier backups
\* of it are there, and nothing happened
C12_Witness ==
  /\ call.fn = "backupPluginVersion"
  /\ call.name = PluginP
  /\ PluginP \notin DOMAIN pre.fs
  /\ Matches(pre.fs, PluginP) # {}
  /\ ret = RetNull
  /\ fs = pre.fs

\* the path the call of backupPluginVersion that leads to the next state moves
\* the canonical directory to
TargetOfBackup == IF ret'.kind = "path" THEN ret'.path ELSE ret'.arg

\* a step in which backupPluginVersion is called on an existing canonical path
BackupOfExisting ==
  /\ call'.fn = "backupPluginVersion"
  /\ calls' = calls + 1
  /\ call'.name \in DOMAIN fs

\* C13: backupPluginVersion relocates an existing canonical directory with a
\* single rename to <pluginPath>-v<version>.  The call changes pluginDir in one
\* step, so the states of the operation are the one it starts in and the one
\* it ends in: in both the plugin content is at the canonical path or at the
\* backup path, whether the call returns or throws; and when it returns, the
\* canonical path is absent, the backup path holds the content, every other
\* entry is as it was and the value returned is the backup path.
C13_RelocatedBySingleRename ==
  [][ BackupOfExisting
      => /\ IsPrefix(call'.name \o DashV, TargetOfBackup)
         /\ \/ call'.name \in DOMAIN fs' /\ fs'[call'.name] = fs[call'.name]
            \/ TargetOfBackup \in DOMAIN fs' /\ fs'[TargetOfBackup] = fs[call'.name]
         /\ ret'.kind \in {"path", "throw"}
         /\ ret'.kind = "throw" => fs' = fs
         /\ ret'.kind = "path"
              => /\ call'.name \notin DOMAIN fs'
                 /\ DOMAIN fs' = ((DOMAIN fs) \ {call'.name}) \cup {ret'.path}
                 /\ fs'[ret'.path] = fs[call'.name]
                 /\ \A e \in (DOMAIN fs') \ {ret'.path} : fs'[e] = fs[e]
                 /\ ReadableVersion(fs[call'.name])
                      => ret'.path = call'.name \o DashV \o VersionRead(fs[call'.name]) ]_vars

\* an installed plugin with index.js was moved to its backup path
C13_Witness ==
  /\ call.fn = "backupPluginVersion"
  /\ call.name \in DOMAIN pre.fs
  /\ "index.js" \in DOMAIN pre.fs[call.name].entries
  /\ ret = RetPath(BackupPath(call.name, V190))
  /\ call.name \notin DOMAIN fs
  /\ fs[ret.path] = pre.fs[call.name]

\* the backup path the last call of backupPluginVersion moved to, or tried to
BackupTarget == IF ret.kind = "path" THEN ret.path ELSE ret.arg

\* the one warning of a backup whose version could not be read
VersionWarned ==
  LinesAt("warn") = <<LogLine("warn", "Could not read version for backup of", call.name, <<>>)>>

\* C14: backupPluginVersion takes the version token from package.json, else
\* from bower.json, else synthesizes unknown-<current milliseconds> and logs
\* exactly one warning; unreadable or missing metadata in an existing canonical
\* directory never makes the backup fail: a call that found no metadata fails
\* only where the rename does, on a non-empty directory at the backup path.
C14_VersionTokenOrder ==
  call.fn = "backupPluginVersion" /\ call.name \in DOMAIN pre.fs
  => /\ ( /\ ReadOk(pre.fs[call.name], "package.json")
          /\ readJson(pre.fs[call.name], "package.json").hasVersion )
          => /\ BackupTarget
                  = BackupPath(call.name, readJson(pre.fs[call.name], "package.json").version)
             /\ LinesAt("warn") = <<>>
     /\ ( /\ ~ReadOk(pre.fs[call.name], "package.json")
          /\ ReadOk(pre.fs[call.name], "bower.json")
          /\ readJson(pre.fs[call.name], "bower.json").hasVersion )
          => /\ BackupTarget
                  = BackupPath(call.name, readJson(pre.fs[call.name], "bower.json").version)
             /\ LinesAt("warn") = <<>>
     /\ ( /\ ~ReadOk(pre.fs[call.name], "package.json")
          /\ ~ReadOk(pre.fs[call.name], "bower.json") )
          => /\ \E now \in Times : BackupTarget = BackupPath(call.name, Unknown \o now)
             /\ VersionWarned
             /\ ret.kind = "path" \/ (ret.err = "ENOTEMPTY" /\ NonEmptyDir(pre.fs, BackupTarget))
     /\ ret.kind = "path" => fs[ret.path] = pre.fs[call.name]

\* a directory without metadata was backed up under an unknown-<ms> token with
\* one warning
C14_Witness ==
  /\ call.fn = "backupPluginVersion"
  /\ call.name \in DOMAIN pre.fs
  /\ ~ReadOk(pre.fs[call.name], "package.json")
  /\ ~ReadOk(pre.fs[call.name], "bower.json")
  /\ ret = RetPath(BackupPath(call.name, Unknown \o <<"2">>))
  /\ VersionWarned
  /\ fs[ret.path] = pre.fs[call.name]

\* the version strings the metadata files of dir hold
MetadataVersions(dir) ==
  {readJson(dir, file).version :
     file \in {m \in {"package.json", "bower.json"} :
                 ReadOk(dir, m) /\ readJson(dir, m).hasVersion}}

\* the tokens unknown-<milliseconds>
UnknownTokens == {Unknown \o now : now \in Times}

\* C15: every backup directory backupPluginVersion creates has a version token
\* that is the version string read from metadata or the synthesized
\* unknown-<milliseconds> token; when package.json parses but carries no
\* version field, the token is the version from bower.json if readable and
\* otherwise the unknown-<milliseconds> token.
C15_TokenIsVersionOrUnknown ==
  call.fn = "backupPluginVersion" /\ call.name \in DOMAIN pre.fs /\ ret.kind = "path"
  => /\ VersionToken(call.name, ret.path)
          \in MetadataVersions(pre.fs[call.name]) \cup UnknownTokens
     /\ ( /\ ReadOk(pre.fs[call.name], "package.json")
          /\ ~readJson(pre.fs[call.name], "package.json").hasVersion )
          => IF /\ ReadOk(pre.fs[call.name], "bower.json")
                /\ readJson(pre.fs[call.name], "bower.json").hasVersion
             THEN VersionToken(call.name, ret.path)
                    = readJson(pre.fs[call.name], "bower.json").version
             ELSE VersionToken(call.name, ret.path) \in UnknownTokens

\* C16: processPluginFiles called with a sourcePath that has no directory
\* component (its basename equals itself) performs no filesystem access and
\* returns exactly {name: <requested name>, version: <sourcePath>,
\* isLocalInstall: false}.
C16_BareSourceIsNotLocal ==
  call.fn = "processPluginFiles" /\ call.sourcePath = basename(call.sourcePath)
  => /\ fs = pre.fs
     /\ srcfs = pre.srcfs
     /\ log = <<>>
     /\ ret = RetPkg([NoPkg EXCEPT !.name = call.name, !.hasVersion = TRUE,
                                   !.version = call.sourcePath])

\* with PluginP installed and a source waiting in the upload area, the call for
\* the version 4.3.5 returned the non-local descriptor and touched neither
C16_Witness ==
  /\ call.fn = "processPluginFiles"
  /\ call.sourcePath = <<"4.3.5">>
  /\ call.name = PluginP
  /\ PluginP \in DOMAIN pre.fs
  /\ pre.srcfs # EmptyTmp
  /\ ret.kind = "pkg"
  /\ ret.pkg.name = PluginP
  /\ ret.pkg.version = <<"4.3.5">>
  /\ ~ret.pkg.isLocalInstall /\ ~ret.pkg.hasSourcePath
  /\ fs = pre.fs /\ srcfs = pre.srcfs

\* entry e is the same before and after the last call
Untouched(e) == e \in DOMAIN pre.fs /\ e \in DOMAIN fs /\ fs[e] = pre.fs[e]

\* the canonical directory of pluginName and its own backups, before or after
\* the last call
EntriesOf(pluginName) ==
  {e \in (DOMAIN pre.fs) \cup (DOMAIN fs) : e = pluginName}
  \cup OwnBackups(pre.fs, pluginName) \cup OwnBackups(fs, pluginName)

\* C17: for a local source, processPluginFiles uses the name inside the source
\* metadata, not the name the caller requested, for everything it touches: the
\* canonical target, the backup it creates and the backups it prunes are those
\* of <pluginDir>/<metadata.name>, the directory <pluginDir>/<requested name>
\* and its backups are left unchanged when the two names differ, and the
\* returned descriptor has sourcePath = <pluginDir>/<metadata.name> and
\* isLocalInstall = true.
C17_MetadataNameIsAuthoritative ==
  call.fn = "processPluginFiles" /\ ResolvedSource.status = "ok"
  => /\ \A e \in ((DOMAIN pre.fs) \cup (DOMAIN fs)) \ EntriesOf(ResolvedSource.json.name) :
          Untouched(e)
     /\ call.name # ResolvedSource.json.name
          => \A e \in EntriesOf(call.name) : Untouched(e)
     /\ ret.kind = "pkg"
          => /\ ret.pkg.hasSourcePath
             /\ ret.pkg.sourcePath = ResolvedSource.json.name
             /\ ret.pkg.isLocalInstall
             /\ ret.pkg.name = ResolvedSource.json.name
             /\ ResolvedSource.json.name \in DOMAIN fs
             /\ \A k \in DOMAIN ResolvedSource.src.entries :
                  /\ k \in DOMAIN fs[ResolvedSource.json.name].entries
                  /\ fs[ResolvedSource.json.name].entries[k] = ResolvedSource.src.entries[k]

\* C17 for the calls that find no directory of another plugin among the
\* entries matching <metadata.name>-v*
C17_AuthoritativeWithoutCollision ==
  Foreign(pre.fs, IF call.fn = "processPluginFiles" THEN ResolvedSource.json.name ELSE <<>>) = {}
  => C17_MetadataNameIsAuthoritative

\* C18: when the resolved source directory has neither a readable package.json
\* nor a readable bower.json, processPluginFiles fails with the
\* invalid-source-package error, and that error names the original source path
\* the caller passed (the path before the single-entry descent), not the
\* descended path.
C18_InvalidSourceNamesOriginalPath ==
  call.fn = "processPluginFiles" /\ ResolvedSource.status = "invalid"
  => /\ ret.kind = "throw"
     /\ ret.err = "Invalid plugin zip"
     /\ ret.arg = call.sourcePath

\* the directory at the source path of the last call, its single entry and the
\* node under that entry
SourceTop == Lookup(pre.srcfs, call.sourcePath)
SingleEntry == CHOOSE k \in DOMAIN SourceTop.entries : TRUE
RootFolder == SourceTop.entries[SingleEntry]

\* the last call was processPluginFiles on a source holding one subdirectory
\* and nothing else
NestedSource ==
  /\ call.fn = "processPluginFiles"
  /\ Len(call.sourcePath) > 1
  /\ SourceTop.kind = "dir"
  /\ Cardinality(DOMAIN SourceTop.entries) = 1
  /\ RootFolder.kind = "dir"

\* C19: processPluginFiles descends into the source directory's single entry at
\* most once: a source directory containing exactly one subdirectory that holds
\* the metadata file is staged with that subdirectory's content as the canonical
\* directory, and no second level of descent ever happens even when the
\* subdirectory again contains exactly one entry: metadata one level further
\* down is not found.
C19_DescendsOnce ==
  NestedSource
  => IF ReadOk(RootFolder, "package.json") \/ ReadOk(RootFolder, "bower.json")
     THEN /\ ret.kind = "throw" => ret.err # "Invalid plugin zip"
          /\ ret.kind = "pkg"
               => /\ ret.pkg.isLocalInstall
                  /\ ret.pkg.name \in DOMAIN fs
                  /\ fs[ret.pkg.name] = RootFolder
                  /\ Lookup(srcfs, call.sourcePath \o <<SingleEntry>>) = Missing
                  /\ Lookup(srcfs, call.sourcePath) = Dir(NoEntries)
     ELSE /\ ret = RetThrow("Invalid plugin zip", call.sourcePath \o <<SingleEntry>>)
          /\ fs = pre.fs
          /\ srcfs = pre.srcfs

\* a root folder holding package.json and nothing else was staged as the
\* canonical directory
C19_Witness ==
  /\ NestedSource
  /\ DOMAIN RootFolder.entries = {"package.json"}
  /\ ret.kind = "pkg"
  /\ ret.pkg.tag = "alone"
  /\ fs[PluginP] = RootFolder
  /\ Lookup(srcfs, call.sourcePath \o <<SingleEntry>>) = Missing

\* the canonical directory of the resolved source's plugin holds every file of
\* the resolved source directory
SourceInPlace ==
  /\ ResolvedSource.json.name \in DOMAIN fs
  /\ \A k \in DOMAIN ResolvedSource.src.entries :
       /\ k \in DOMAIN fs[ResolvedSource.json.name].entries
       /\ fs[ResolvedSource.json.name].entries[k] = ResolvedSource.src.entries[k]

\* C20: after a successful local processPluginFiles the canonical directory
\* holds every file of the resolved source directory and the resolved source
\* directory no longer exists; the source is moved by copy-then-delete, the
\* delete starting only after the copy has completed, so in no outcome of a
\* local call is the source gone without its files being in place.
C20_SourceMovedByCopyThenDelete ==
  call.fn = "processPluginFiles" /\ ResolvedSource.status = "ok"
  => /\ ret.kind = "pkg"
          => /\ ret.pkg.isLocalInstall
             /\ SourceInPlace
             /\ Lookup(srcfs, ResolvedSource.sourcePath) = Missing
             /\ srcfs = RemoveAt(pre.srcfs, ResolvedSource.sourcePath)
     /\ Lookup(srcfs, ResolvedSource.sourcePath) = Missing => SourceInPlace
     /\ ret.kind # "pkg" => srcfs = pre.srcfs

\* the flat source of version 2.0.0 replaced an installed plugin and left the
\* upload area
C20_Witness ==
  /\ call.fn = "processPluginFiles"
  /\ ret.kind = "pkg"
  /\ ret.pkg.version = V200
  /\ PluginP \in DOMAIN pre.fs
  /\ DOMAIN ResolvedSource.src.entries = {"package.json", "index.js"}
  /\ fs[PluginP] = ResolvedSource.src
  /\ Lookup(pre.srcfs, call.sourcePath) = ResolvedSource.src
  /\ Lookup(srcfs, call.sourcePath) = Missing

\* the errors a recursive removal can fail with
RmErrors == {"EACCES", "EPERM", "EBUSY"}

\* C30: filesystem errors are not swallowed by restorePluginFromBackup: when the
\* canonical directory exists and its recursive removal fails, the restore
\* fails with that removal error and does not go on to rename the backup.
C30_RemovalErrorPropagates ==
  /\ call.fn = "restorePluginFromBackup"
  /\ call.mostRecent # NullPath
  /\ call.name \in DOMAIN pre.fs
  /\ ~call.rmOk
  => /\ ret.kind = "throw"
     /\ ret.err \in RmErrors
     /\ fs = pre.fs

\* the last call was an install or a restore that succeeded for pluginName
SucceededFor(pluginName) ==
  \/ /\ call.fn = "processPluginFiles"
     /\ ret.kind = "pkg" /\ ret.pkg.isLocalInstall /\ ret.pkg.name = pluginName
  \/ /\ call.fn = "restorePluginFromBackup"
     /\ ret.kind = "pkg" /\ call.name = pluginName

\* after a successful install or restore for N the canonical directory of N exists
CanonicalAfterSuccess ==
  \A n \in Names : SucceededFor(n) => n \in DOMAIN fs

\* after a successful local install of N at most one backup of N exists
OneBackupAfterInstall ==
  \A n \in Names :
    call.fn = "processPluginFiles" /\ SucceededFor(n) => Cardinality(OwnBackups(fs, n)) <= 1

\* no install or restore, whatever plugin it was for and however it ended,
\* leaves a plugin without the canonical directory it had
CanonicalNeverLost ==
  call.fn \in {"processPluginFiles", "restorePluginFromBackup"}
  => \A n \in Names : n \in DOMAIN pre.fs => n \in DOMAIN fs

\* C29: after every successful processPluginFiles or restorePluginFromBackup
\* for plugin N the canonical directory <pluginDir>/N exists, and after any
\* sequence of successful local processPluginFiles calls for N (run one at a
\* time) at most one backup directory of N exists; the canonical directory is
\* absent only while such an operation is in progress, so none is missing once
\* a call has ended.
C29_CanonicalPresentOneBackup ==
  CanonicalAfterSuccess /\ OneBackupAfterInstall /\ CanonicalNeverLost

\* C29 for the calls that find no directory of another plugin among the
\* entries matching <name>-v*
C29_PresentWithoutCollision ==
  (\A n \in Names : Foreign(pre.fs, n) = {}) => C29_CanonicalPresentOneBackup

(***************************************************************************)
(* Properties of installPlugins, read in the states of BatchSpec.          *)
(***************************************************************************)

\* the entries of the batch whose install resolves, and those whose install fails
Succeeding == {i \in 1..Len(batch.plugins) : batch.plugins[i].ok}
Failing == {i \in 1..Len(batch.plugins) : ~batch.plugins[i].ok}

\* the elements of a sequence
Range(seq) == {seq[k] : k \in 1..Len(seq)}

\* C25: installPlugins isolates failures within a batch: installPlugin is
\* started for every entry of the batch regardless of which other entries
\* fail, in non-strict mode the call never rejects, and the returned list
\* contains exactly the results of the entries whose install succeeded, with
\* one warning logged per failed entry and one info line per successful entry.
C25_FailuresIsolated ==
  /\ batch.phase \in {"awaiting", "done"}
       => \A i \in 1..Len(batch.plugins) : batch.status[i] # "new"
  /\ batch.phase = "awaiting" => batch.outcome = "pending"
  /\ batch.phase = "done"
       => /\ \A i \in Succeeding : batch.status[i] = "resolved"
          /\ \A i \in Failing : batch.status[i] = "rejected"
          /\ ~batch.strict => batch.outcome = "returned"
          /\ batch.outcome = "returned"
               => /\ Range(batch.installed) = Succeeding
                  /\ Len(batch.installed) = Cardinality(Succeeding)
          /\ Len(LinesAt("warn")) = Cardinality(Failing)
          /\ Len(LinesAt("info")) = Cardinality(Succeeding)
          /\ \A i \in Failing :
               \E k \in 1..Len(log) :
                 log[k] = LogLine("warn", "PLUGIN_INSTALL_FAIL", batch.plugins[i].name, <<>>)

\* a batch of three in non-strict mode, the first install failing before the
\* two others settled, returned the two results
C25_Witness ==
  /\ batch.phase = "done"
  /\ ~batch.strict
  /\ Len(batch.plugins) = 3
  /\ Failing = {1}
  /\ batch.settled[1] = 1
  /\ batch.outcome = "returned"
  /\ Range(batch.installed) = {2, 3}

\* C26: installPlugins rejects with the aggregate CONTENTPLUGIN_INSTALL_FAILED
\* error if and only if strict mode is on and at least one entry failed; the
\* rejection happens only after every entry's install has settled, and its
\* data carries one error per failed entry.
C26_RejectsOnlyWhenStrict ==
  /\ batch.phase = "done" => (batch.outcome = "rejected" <=> batch.strict /\ Failing # {})
  /\ batch.outcome = "rejected"
       => /\ \A i \in 1..Len(batch.plugins) : batch.status[i] \in {"resolved", "rejected"}
          /\ Range(batch.errors) = Failing
          /\ Len(batch.errors) = Cardinality(Failing)
  /\ batch.phase # "done" => batch.outcome = "pending"

\* a strict batch of three with two failures was rejected, the one success
\* having settled last
C26_Witness ==
  /\ batch.phase = "done"
  /\ batch.strict
  /\ Len(batch.plugins) = 3
  /\ Cardinality(Failing) = 2
  /\ batch.plugins[batch.settled[3]].ok
  /\ batch.outcome = "rejected"
  /\ Len(batch.errors) = 2

\* C27 as stated: installPlugins returns the successful results in the order
\* of the input batch: for entries i before j that both succeed, the result of
\* i precedes the result of j in the returned list, whatever order the
\* concurrent installs complete in.
C27_ResultsInBatchOrder ==
  batch.outcome = "returned"
  => \A k, l \in 1..Len(batch.installed) :
       k < l => batch.installed[k] < batch.installed[l]

\* C27: installPlugins returns the successful results in the order in which
\* the installs completed: the returned list is the sequence of settled
\* entries without the failed ones, so the result of i precedes the result of
\* j exactly when the install of i resolved first; it is the order of the
\* batch when the installs complete in that order.
C27_ResultsInCompletionOrder ==
  /\ batch.installed = SelectSeq(batch.settled, LAMBDA i : batch.plugins[i].ok)
  /\ batch.errors = SelectSeq(batch.settled, LAMBDA i : ~batch.plugins[i].ok)
  /\ ( /\ batch.outcome = "returned"
       /\ \A k, l \in 1..Len(batch.settled) : k < l => batch.settled[k] < batch.settled[l] )
       => \A k, l \in 1..Len(batch.installed) :
            k < l => batch.installed[k] < batch.installed[l]

\* two installs both succeeded, the second of the batch first, and its result
\* came first in the returned list
C27_Witness ==
  /\ batch.outcome = "returned"
  /\ Len(batch.plugins) = 2
  /\ batch.settled = <<2, 1>>
  /\ batch.installed = <<2, 1>>

\* C28: the batch installer serializes work on the same plugin name: during
\* installPlugins, two installPlugin pipelines that resolve to the same plugin
\* name are never in flight at the same time.
C28_SameNameSerialized ==
  \A i, j \in 1..Len(batch.plugins) :
    /\ i # j
    /\ batch.status[i] = "running"
    /\ batch.status[j] = "running"
    => batch.plugins[i].name # batch.plugins[j].name


(***************************************************************************)
(* Properties of the utilities step by step.                               *)
(***************************************************************************)
\* where a run of processPluginFiles at pc can be after its next step
PcAfter(pc) ==
  CASE pc = "start" -> {"backup", "done"}
    [] pc = "backup" -> {"glob", "done"}
    [] pc = "glob" -> {"select", "copy"}
    [] pc = "select" -> {"remove"}
    [] pc = "remove" -> {"remove", "copy", "done"}
    [] pc = "copy" -> {"delete", "done", "crashed"}
    [] pc = "delete" -> {"done"}
    [] pc = "crashed" -> {"start"}
    [] OTHER -> {}

\* nothing of the plugin is in pluginDir f: no installed version, no backup
NothingPrior(f, pluginName) ==
  pluginName \notin DOMAIN f /\ OwnBackups(f, pluginName) = {}

\* no entry of pluginDir f is the plugin's directory or matches <name>-v*
NothingMatching(f, pluginName) ==
  pluginName \notin DOMAIN f /\ Matches(f, pluginName) = {}

StepInOrder(p) ==
  /\ procs'[p].pc \in PcAfter(procs[p].pc) \cup {"crashed"}
  /\ fs' # fs => procs[p].pc \in {"backup", "remove", "copy"}
  /\ srcfs' # srcfs => procs[p].pc = "delete"

\* C21: in every local run of processPluginFiles the steps come in the order
\* read metadata, backup, retention, copy, delete source, each one changing
\* the filesystem in its own step only; the backup and the retention step are
\* always gone through, and they change nothing when the plugin has neither
\* an installed version nor a backup.
C21_StepsInOrder ==
  [][\A p \in ProcIds :
       procs[p].op = "processPluginFiles" /\ procs'[p] # procs[p]
       => /\ StepInOrder(p)
          /\ (/\ procs[p].pc \in {"backup", "glob", "select", "remove"}
              /\ NothingPrior(fs, procs[p].rs.json.name))
             => fs' = fs]_vars

\* the same, the two steps being no-ops when nothing matches <name>-v* either
C21_InOrderNothingMatching ==
  [][\A p \in ProcIds :
       procs[p].op = "processPluginFiles" /\ procs'[p] # procs[p]
       => /\ StepInOrder(p)
          /\ (/\ procs[p].pc \in {"backup", "glob", "select", "remove"}
              /\ NothingMatching(fs, procs[p].rs.json.name))
             => fs' = fs]_vars

\* call r is a restore of the plugin that call q has installed from a local
\* source, started after q has returned; both have ended, q without a crash
InstalledThenRestored(q, r) ==
  /\ procs[q].op = "processPluginFiles" /\ procs[q].pc = "done"
  /\ procs[q].ret.kind = "pkg" /\ procs[q].runs = 1
  /\ procs[r].op = "restorePluginFromBackup" /\ procs[r].pc = "done"
  /\ procs[r].name = procs[q].rs.json.name
  /\ q \in procs[r].after

\* the restore has brought back what was installed before the calls
RolledBack(r) ==
  /\ procs[r].ret.kind = "pkg"
  /\ procs[r].ret.pkg.hasVersion
  /\ procs[r].ret.pkg.version = VersionRead(pre.fs[procs[r].name])
  /\ procs[r].name \in DOMAIN fs
  /\ fs[procs[r].name] = pre.fs[procs[r].name]

\* C22: from every pluginDir in which plugin N is installed with a readable
\* version V, a successful processPluginFiles of a version W of N followed by
\* restorePluginFromBackup(pluginDir, N) leaves the content of version V in
\* the canonical directory and returns a descriptor with version V.
C22_InstallThenRestoreRoundTrip ==
  \A q \in ProcIds, r \in ProcIds :
    (/\ InstalledThenRestored(q, r)
     /\ procs[r].name \in DOMAIN pre.fs
     /\ ReadableVersion(pre.fs[procs[r].name]))
    => RolledBack(r)

\* the same from a pluginDir in which nothing matches <N>-v*
C22_RoundTripWithoutOtherBackups ==
  \A q \in ProcIds, r \in ProcIds :
    (/\ InstalledThenRestored(q, r)
     /\ procs[r].name \in DOMAIN pre.fs
     /\ ReadableVersion(pre.fs[procs[r].name])
     /\ Matches(pre.fs, procs[r].name) = {})
    => RolledBack(r)

C22_RoundTripReached ==
  \E q \in ProcIds, r \in ProcIds :
    /\ InstalledThenRestored(q, r)
    /\ procs[r].name \in DOMAIN pre.fs
    /\ Matches(pre.fs, procs[r].name) = {}
    /\ RolledBack(r)

\* what one uninterrupted call of processPluginFiles can end with on pluginDir
\* f and upload area sf
OutcomesAfterBackup(f, sf, pluginData, rs, b, now) ==
  UNION {{processPluginFiles(f, sf, pluginData, now, backups, mostRecent) :
            backups \in ListingsBut(FoundAfterBackup(rs, b), mostRecent)} :
         mostRecent \in ResultsAfterBackup(rs, b)}

ProcessOutcomes(f, sf, pluginData) ==
  UNION {OutcomesAfterBackup(f, sf, pluginData, resolveSource(sf, pluginData),
                             backupExisting(f, sf, pluginData, now), now) :
         now \in ClockReads(f, resolveSource(sf, pluginData).json.name)}

PluginData(p) == [name |-> procs[p].name, sourcePath |-> procs[p].sourcePath]

\* call p has been cut off by a crash, called again, and has returned
RerunCompleted(p) ==
  /\ procs[p].op = "processPluginFiles" /\ procs[p].runs = 2
  /\ procs[p].pc = "done" /\ procs[p].ret.kind = "pkg"

SameAsUninterrupted(p) ==
  \E o \in ProcessOutcomes(pre.fs, pre.srcfs, PluginData(p)) :
    o.fs = fs /\ o.srcfs = srcfs /\ o.ret = procs[p].ret

\* C23: a local run of processPluginFiles cut off after any of its steps
\* before the source is deleted, followed by a second call with the same
\* arguments that runs to the end, leaves the state one uninterrupted run
\* leaves: the new version in the canonical directory, and the backup of the
\* version installed before.
C23_RerunSameAsUninterrupted ==
  \A p \in ProcIds : RerunCompleted(p) => SameAsUninterrupted(p)

\* a call that was never cut off ends as the atomic call does
UninterruptedRefinesCall ==
  \A p \in ProcIds :
    (/\ procs[p].op = "processPluginFiles" /\ procs[p].runs = 1 /\ procs[p].pc = "done"
     /\ \A q \in ProcIds \ {p} : procs[q].op = "none")
    => SameAsUninterrupted(p)

\* the same for the runs cut off before the copy has begun: after the backup
\* rename, during or after the pruning
C23_SameWhenCutBeforeCopy ==
  \A p \in ProcIds :
    (RerunCompleted(p) /\ procs[p].cut \in {"backup", "glob", "select", "remove", "copy"})
    => SameAsUninterrupted(p)

\* the backup of the version installed before is there after the second run
C23_BackupOfPreviousKept ==
  \A p \in ProcIds :
    (/\ RerunCompleted(p)
     /\ DOMAIN pre.fs = {PluginP}
     /\ procs[p].rs.json.name = PluginP)
    => BackupPath(PluginP, V190) \in DOMAIN fs

\* what one call of a utility, run by itself on pluginDir f and upload area
\* sf, can end with
Ending(o, sf) == [fs |-> o.fs, srcfs |-> sf, ret |-> o.ret]

CleanupOutcomes(f, sf, pluginName) ==
  UNION {{Ending(cleanupOldPluginBackups(f, backups, mostRecent, pluginName), sf) :
            backups \in ListingsBut(Matches(f, pluginName), mostRecent)} :
         mostRecent \in MostRecentResults(f, pluginName)}

RestoreOutcomes(f, sf, pluginName) ==
  {Ending(restorePluginFromBackup(f, mostRecent, pluginName, TRUE), sf) :
     mostRecent \in MostRecentResults(f, pluginName)}

Outcomes(c, f, sf) ==
  IF c.op = "processPluginFiles"
  THEN {Ending(o, o.srcfs) :
          o \in ProcessOutcomes(f, sf, [name |-> c.name, sourcePath |-> c.sourcePath])}
  ELSE IF c.op = "cleanupOldPluginBackups" THEN CleanupOutcomes(f, sf, c.name)
  ELSE RestoreOutcomes(f, sf, c.name)

\* call a by itself, then call b by itself
OneAfterTheOther(a, b) ==
  UNION {{[fs |-> o2.fs, srcfs |-> o2.srcfs, rets |-> (a :> o1.ret) @@ (b :> o2.ret)] :
            o2 \in Outcomes(procs[b], o1.fs, o1.srcfs)} :
         o1 \in Outcomes(procs[a], pre.fs, pre.srcfs)}

Final == [fs |-> fs, srcfs |-> srcfs, rets |-> [p \in ProcIds |-> procs[p].ret]]

\* both calls have ended, and they were for two different plugins
BothEnded ==
  /\ \A p \in ProcIds : procs[p].op # "none" /\ procs[p].pc = "done"
  /\ procs[1].name # procs[2].name

\* C24: two calls of processPluginFiles, cleanupOldPluginBackups or
\* restorePluginFromBackup for two different plugin names, one name being the
\* other followed by -v... included, end after every interleaving of their
\* filesystem steps with a pluginDir, an upload area and results that the two
\* calls run one after the other end with.
C24_DifferentNamesIndependent ==
  BothEnded => Final \in OneAfterTheOther(1, 2) \cup OneAfterTheOther(2, 1)

\* the same for two names neither of which is the other followed by -v...
C24_IndependentWithoutCollision ==
  (/\ BothEnded
   /\ ~IsPrefix(procs[1].name \o DashV, procs[2].name)
   /\ ~IsPrefix(procs[2].name \o DashV, procs[1].name))
  => Final \in OneAfterTheOther(1, 2) \cup OneAfterTheOther(2, 1)

\* a single call ends as the atomic call does
SingleCallRefines ==
  \A p \in ProcIds :
    (/\ procs[p].op # "none" /\ procs[p].runs = 1 /\ procs[p].pc = "done"
     /\ \A q \in ProcIds \ {p} : procs[q].op = "none")
    => [fs |-> fs, srcfs |-> srcfs, ret |-> procs[p].ret]
         \in Outcomes(procs[p], pre.fs, pre.srcfs)

(***************************************************************************)
(* Further properties of the utilities, one call at a time.                *)
(***************************************************************************)
\* the last call was processPluginFiles on a source directory that holds a
\* readable metadata file itself
MetadataAtTop ==
  /\ call.fn = "processPluginFiles"
  /\ Len(call.sourcePath) > 1
  /\ SourceTop.kind = "dir"
  /\ ReadOk(SourceTop, "package.json") \/ ReadOk(SourceTop, "bower.json")

\* C34: a source directory that holds a readable metadata file itself is
\* accepted by processPluginFiles whatever the number of its entries: a source
\* whose only entry is package.json or bower.json is staged, not rejected as an
\* invalid package.
C34_MetadataAtTopAccepted ==
  MetadataAtTop => ~(ret.kind = "throw" /\ ret.err = "Invalid plugin zip")

\* the same for the sources that hold something beside the metadata file
C34_AcceptedWithSeveralEntries ==
  MetadataAtTop /\ Cardinality(DOMAIN SourceTop.entries) > 1
  => ~(ret.kind = "throw" /\ ret.err = "Invalid plugin zip")

\* C35: getMostRecentBackup is deterministic in the set of candidates: for the
\* same set of backup directories it returns the same path whatever the order
\* of the directory listing, sets that mix semver and non-semver tokens and
\* sets with tokens of equal precedence included.
C35_SameResultForEveryListing ==
  call.fn = "getMostRecentBackup"
  => MostRecentResults(pre.fs, call.name) = {call.mostRecent}

\* the same for the sets the pairwise rule orders consistently
C35_SameResultWhenConsistent ==
  call.fn = "getMostRecentBackup" /\ ConsistentOrder(call.name, Matches(pre.fs, call.name))
  => MostRecentResults(pre.fs, call.name) = {call.mostRecent}

\* C36: after a successful local processPluginFiles over an existing install
\* the canonical directory holds exactly the files of the resolved source; no
\* file of the version installed before remains in it.
C36_CanonicalHoldsExactlySource ==
  (/\ call.fn = "processPluginFiles"
   /\ ResolvedSource.status = "ok"
   /\ ret.kind = "pkg"
   /\ ResolvedSource.json.name \in DOMAIN pre.fs)
  => /\ ResolvedSource.json.name \in DOMAIN fs
     /\ fs[ResolvedSource.json.name] = ResolvedSource.src

\* version 2.0.0 was installed over an installed version whose index.js and
\* package.json are gone from the canonical directory
C36_Witness ==
  /\ call.fn = "processPluginFiles"
  /\ ResolvedSource.status = "ok"
  /\ ret.kind = "pkg"
  /\ PluginP \in DOMAIN pre.fs
  /\ "readme.txt" \in DOMAIN pre.fs[PluginP].entries
  /\ ResolvedSource.json.name = PluginP
  /\ fs[PluginP] = ResolvedSource.src
  /\ "readme.txt" \notin DOMAIN fs[PluginP].entries

\* C37: when processPluginFiles fails because the source has no usable
\* metadata, nothing under pluginDir has changed and the source is where it
\* was: the error is raised before the backup, the pruning, the copy and the
\* removal of the source.
C37_InvalidSourceChangesNothing ==
  call.fn = "processPluginFiles" /\ ResolvedSource.status = "invalid"
  => /\ ret.kind = "throw" /\ ret.err = "Invalid plugin zip"
     /\ fs = pre.fs
     /\ srcfs = pre.srcfs
     /\ log = <<>>

\* a source without metadata was rejected while a plugin was installed
C37_Witness ==
  /\ call.fn = "processPluginFiles"
  /\ ResolvedSource.status = "invalid"
  /\ ret.kind = "throw"
  /\ call.name = PluginP
  /\ PluginP \in DOMAIN fs
  /\ Lookup(srcfs, call.sourcePath).kind = "dir"

\* the last call was restorePluginFromBackup and failed on the metadata read
RestoreFailedOnMetadata ==
  /\ call.fn = "restorePluginFromBackup"
  /\ ret.kind = "throw"
  /\ ret.err = "Could not read package.json or bower.json from backup of"

\* C38: restorePluginFromBackup checks the metadata only after the swap and
\* does not roll back: when it fails because the restored directory has no
\* readable metadata, the previous canonical directory is deleted, the
\* canonical path holds the content of the backup, and the path of the
\* selected backup no longer exists.
C38_NoRollbackOnMetadataFailure ==
  RestoreFailedOnMetadata
  => /\ call.mostRecent \in DOMAIN pre.fs
     /\ call.mostRecent \notin DOMAIN fs
     /\ call.name \in DOMAIN fs
     /\ fs[call.name] = pre.fs[call.mostRecent]
     /\ ~ReadOk(fs[call.name], "package.json") /\ ~ReadOk(fs[call.name], "bower.json")
     /\ fs = With(Without(Without(pre.fs, call.name), call.mostRecent),
                  call.name, pre.fs[call.mostRecent])

\* the installed version with its index.js was replaced by a backup that holds
\* readme.txt only
C38_Witness ==
  /\ RestoreFailedOnMetadata
  /\ call.name = PluginP
  /\ PluginP \in DOMAIN pre.fs
  /\ "index.js" \in DOMAIN pre.fs[PluginP].entries
  /\ DOMAIN fs[PluginP].entries = {"readme.txt"}
  /\ call.mostRecent = BackupPath(PluginP, Unknown \o <<"1">>)
  /\ call.mostRecent \notin DOMAIN fs

\* the backups of the plugin in f named with an unknown-<milliseconds> token,
\* and those named with a valid semantic version
UnknownBackups(f, pluginName) ==
  {e \in OwnBackups(f, pluginName) : IsPrefix(Unknown, VersionToken(pluginName, e))}
SemverBackups(f, pluginName) ==
  {e \in OwnBackups(f, pluginName) : valid(VersionToken(pluginName, e))}

BothKinds(f, pluginName) ==
  UnknownBackups(f, pluginName) # {} /\ SemverBackups(f, pluginName) # {}

RejectedAsExisting ==
  /\ app.fn = "installPlugin"
  /\ app.ret.kind = "throw"
  /\ app.ret.err = "CONTENTPLUGIN_ALREADY_EXISTS"

\* C31: when installPlugin rejects with CONTENTPLUGIN_ALREADY_EXISTS nothing
\* has been changed: the plugin's directory under pluginDir holds the files
\* installed before, the uploaded source is still there, no CLI install has
\* run and nothing was written to the database.
C31_RejectedInstallChangesNothing ==
  RejectedAsExisting
  => /\ fs = pre.fs
     /\ srcfs = pre.srcfs
     /\ app.events = <<>>
     /\ app.db = app.predb

\* the same for the installs by version, without local files
C31_NothingChangedWithoutLocalFiles ==
  RejectedAsExisting /\ Len(app.versionOrPath) = 1
  => /\ fs = pre.fs
     /\ srcfs = pre.srcfs
     /\ app.events = <<>>
     /\ app.db = app.predb

\* no rejected install has called the CLI or written to the database
C31_NoCliNoWriteWhenRejected ==
  RejectedAsExisting => app.events = <<>> /\ app.db = app.predb

\* the events of a delete come in the order deregister schemas, CLI uninstall,
\* database delete
DeleteRank(event) ==
  CASE event[1] = "deregisterSchema" -> 1
    [] event[1] = "uninstallPlugins" -> 2
    [] event[1] = "delete" -> 3
    [] OTHER -> 0

DeleteInOrder(events) ==
  /\ \A i \in 1..Len(events) : DeleteRank(events[i]) > 0
  /\ \A i \in 1..Len(events), j \in 1..Len(events) :
       i < j => DeleteRank(events[i]) <= DeleteRank(events[j])

\* the courses that used the plugin when delete was called
UsesBefore == {c \in DOMAIN app.enabled : app.name \in app.enabled[c]}

\* C32: delete refuses to remove a plugin that is in use: when getPluginUses
\* returns at least one course it throws CONTENTPLUGIN_IN_USE carrying those
\* courses before any schema is deregistered, before the CLI uninstall runs
\* and before the record is deleted; when no course uses the plugin the order
\* is deregister schemas, CLI uninstall, database delete.
C32_DeleteRefusedWhenInUse ==
  app.fn = "delete" /\ app.name \in DOMAIN app.predb
  => IF UsesBefore # {}
     THEN /\ app.ret = AppThrow("CONTENTPLUGIN_IN_USE", UsesBefore)
          /\ app.events = <<>>
          /\ app.schemas = app.preschemas
          /\ app.db = app.predb
     ELSE /\ DeleteInOrder(app.events)
          /\ app.ret.kind = "deleted"
               => /\ {app.events[i][2] : i \in {k \in 1..Len(app.events) :
                                                  app.events[k][1] = "deregisterSchema"}}
                       = SchemaFiles[app.name]
                  /\ SubSeq(app.events, Len(app.events) - 1, Len(app.events))
                       = <<<<"uninstallPlugins", app.name>>, <<"delete", app.name>>>>
                  /\ app.name \notin DOMAIN app.db
                  /\ app.schemas = app.preschemas \ SchemaFiles[app.name]

\* a plugin with two schemas, enabled by a course, was not deleted
C32_Witness ==
  /\ app.fn = "delete"
  /\ app.name = PluginP
  /\ PluginP \in DOMAIN app.predb
  /\ "c1" \in UsesBefore
  /\ app.ret.err = "CONTENTPLUGIN_IN_USE"
  /\ app.schemas = {"s1", "s2"}

\* a plugin that no course enables was deleted after its two schemas were
\* deregistered
C32_DeletedWitness ==
  /\ app.fn = "delete"
  /\ app.name = PluginP
  /\ UsesBefore = {}
  /\ app.ret.kind = "deleted"
  /\ Len(app.events) = 4

\* every file given to the last call of loadJsonData holds JSON
AllJson == \A i \in 1..Len(app.contents) : app.contents[i].parses

\* C33: loadJsonData returns all course data of the given files in one array:
\* the result holds every element of each file whose content is an array and
\* the object itself of each file whose content is a single object.
C33_AllDataInOneArray ==
  app.fn = "loadJsonData" /\ AllJson
  => /\ app.ret.kind = "data"
     /\ \A i \in 1..Len(app.contents) :
          \A k \in 1..Len(app.contents[i].items) :
            \E j \in 1..Len(app.ret.data) : app.ret.data[j] = app.contents[i].items[k]

\* what the call does on files that hold JSON: an empty array when every file
\* holds an array, a TypeError at the first file that holds an object
C33_EmptyOrTypeError ==
  app.fn = "loadJsonData" /\ AllJson
  => IF \A i \in 1..Len(app.contents) : app.contents[i].isArray
     THEN app.ret = AppData("data", <<>>)
     ELSE app.ret = AppThrow("TypeError", {})
====
